---------------------------- MODULE Spec2Model ----------------------------
(***************************************************************************)
(* browserfetch: the result cache and the tools of server.py, and the URL  *)
(* guard, the navigation and the browser session management of fetch.py,   *)
(* as state machines.                                                      *)
(*                                                                         *)
(*   SpecCache    _get_cached / _set_cached called directly, with a clock  *)
(*   SpecTool     concurrent calls of the fetch tool; fetch_page is one    *)
(*                awaited step                                             *)
(*   SpecBrowser  concurrent fetch_page / take_screenshot operations on    *)
(*                the slot gate, the launch lock and the shared browser    *)
(*   SpecSession  fewer such operations, beside calls of shutdown()        *)
(*   SpecValidate validate_url on one URL with one answer of getaddrinfo   *)
(*   SpecNavigate _navigate with the outcomes of its page.goto calls       *)
(*   SpecRequest  one request from the call of a tool to what the caller   *)
(*                receives, with the cache it finds                        *)
(*   SpecRender   the header, the cap and the truncation of fetch          *)
(*   SpecPrecheck head_check on one URL with one answer to its HEAD        *)
(*   SpecCondition  _dismiss_cookie_banner and _auto_scroll on one page    *)
(*   SpecBrowserFair  SpecBrowser where a step that can be taken is        *)
(*                eventually taken                                         *)
(***************************************************************************)
EXTENDS Integers, Sequences, FiniteSets, TLC

VARIABLES
    _cache,     \* server._cache: the dict, as the sequence of its items in
                \* insertion order, each [url, ts, result]
    now,        \* the value time.time() returns
    ret,        \* the last cache call and what it returned
    call,       \* the calls of the fetch tool: where each is and its locals
    last,       \* the fetch call that completed last, if it stored a result
    _semaphore,     \* fetch._semaphore: the permits left
    _browser_lock,  \* fetch._browser_lock: the operation holding it, or 0
    _playwright,    \* fetch._playwright: a driver, or 0 for None
    _browser,       \* fetch._browser: a browser, or 0 for None
    driver,     \* the drivers started: alive, and the stop() calls made
    browser,    \* the browsers launched: alive, and the close() calls made
    req,        \* the fetch_page / take_screenshot operations
    ctx,        \* the browsing context of each operation
    sd,         \* the caller of shutdown()
    faults,     \* the failures of driver calls so far
    val,        \* one call of validate_url: its input and its outcome
    nav,        \* one call of _navigate: the load attempts and its outcome
    rq,         \* one call of a tool, followed through all its steps
    render,     \* the rendering of one successful fetch: input and output
    probe,      \* one call of head_check: the response and its outcome
    cond        \* one run of the conditioners: the page and what was done

cacheVars == <<_cache, now, ret>>
toolVars == <<call, last>>
sessionVars == <<_playwright, _browser, driver, browser>>
browserVars == <<_semaphore, _browser_lock, sessionVars, req, ctx, sd, faults>>
unitVars == <<val, nav, rq, render, probe, cond>>
vars == <<cacheVars, toolVars, browserVars, unitVars>>

\* Python's None, where a FetchResult may stand
None == [none |-> TRUE]

-----------------------------------------------------------------------------
(* Program constants, server.py *)

_CACHE_TTL == 300
_CACHE_MAX_ENTRIES == 20
_CACHE_MAX_BYTES == 50 * 1024 * 1024

(* Program constants, fetch.py *)

\* asyncio.Semaphore(4)
SEMAPHORE_PERMITS == 4

-----------------------------------------------------------------------------
(* Bounds of the model *)

NUrls == 2          \* URLs the client asks for after the warm-up
TickStep == 150     \* seconds the clock advances in one step
MaxTime == 300      \* the clock stops here
NCalls == 2         \* calls of the fetch tool that can run at a time
NClients == 2       \* operations that run beside shutdown()
MaxFaults == 1      \* steps that raise although the browser is alive
MaxShutdowns == 2   \* calls of shutdown()

\* The warm-up stores this many distinct small pages, so that the entry
\* bound is one insertion away.
Ballast == _CACHE_MAX_ENTRIES - 1

Urls == 1..NUrls
BallastUrls == (NUrls + 1)..(NUrls + Ballast)

-----------------------------------------------------------------------------
(* A str is kept as the number of its code points per UTF-8 width; b1 also *)
(* counts the lone surrogates, which errors="replace" encodes as "?".      *)

Str(n1, n2, n3, n4) == [b1 |-> n1, b2 |-> n2, b3 |-> n3, b4 |-> n4]

\* len(s)
StrLen(s) == s.b1 + s.b2 + s.b3 + s.b4

\* len(s.encode("utf-8", errors="replace"))
Utf8Len(s) == s.b1 + 2 * s.b2 + 3 * s.b3 + 4 * s.b4

SmallHtml == Str(9, 0, 0, 0)                      \* "<p>hi</p>"
BigHtml   == Str(30 * 1024 * 1024, 0, 0, 0)       \* 30 MB of ASCII
WideHtml  == Str(0, 0, 9 * 1024 * 1024, 0)        \* 9 M CJK characters, 27 MB
HugeHtml  == Str(60 * 1024 * 1024, 0, 0, 0)       \* 60 MB of ASCII
Htmls == {SmallHtml, BigHtml, WideHtml, HugeHtml}

\* fetch.FetchResult
FetchResult(html, url, status, title) ==
    [html |-> html, url |-> url, status |-> status, title |-> title]

Results == {FetchResult(h, 1, 200, "T") : h \in Htmls}
SmallResult == FetchResult(SmallHtml, 1, 200, "T")

\* what fetch_page returns in SpecTool: two 27 MB pages exceed the byte bound
\* together, a 60 MB page alone
Pages == {FetchResult(h, 1, 200, "T") : h \in {SmallHtml, WideHtml, HugeHtml}}

-----------------------------------------------------------------------------
(* dict, insertion-ordered: assigning to a present key keeps its place *)

DictHas(d, k) == \E i \in 1..Len(d) : d[i].url = k

DictIndex(d, k) == CHOOSE i \in 1..Len(d) : d[i].url = k

DictGet(d, k) == d[DictIndex(d, k)]

DictSet(d, k, ts, result) ==
    LET item == [url |-> k, ts |-> ts, result |-> result]
    IN  IF DictHas(d, k)
        THEN [d EXCEPT ![DictIndex(d, k)] = item]
        ELSE Append(d, item)

DictDel(d, k) ==
    LET i == DictIndex(d, k)
    IN  SubSeq(d, 1, i - 1) \o SubSeq(d, i + 1, Len(d))

-----------------------------------------------------------------------------
(* server.py: the cache *)

RECURSIVE SumBytes(_)
SumBytes(d) ==
    IF d = <<>> THEN 0 ELSE Utf8Len(Head(d).result.html) + SumBytes(Tail(d))

_cache_size_bytes(d) == SumBytes(d)

\* _get_cached with the TTL compared by <=
_get_cached_inclusive(d, url, t) ==
    IF DictHas(d, url)
    THEN LET e == DictGet(d, url)
         IN  IF t - e.ts <= _CACHE_TTL
             THEN [ret |-> e.result, cache |-> d]
             ELSE [ret |-> None, cache |-> DictDel(d, url)]
    ELSE [ret |-> None, cache |-> d]

\* [ret |-> the value returned, cache |-> the dict afterwards]
_get_cached(d, url, t) ==
    IF DictHas(d, url)
    THEN LET e == DictGet(d, url)
         IN  IF t - e.ts < _CACHE_TTL
             THEN [ret |-> e.result, cache |-> d]
             ELSE [ret |-> None, cache |-> DictDel(d, url)]
    ELSE [ret |-> None, cache |-> d]

\* the loop condition without its byte bound
OverLimitsEntriesOnly(d) == Len(d) > _CACHE_MAX_ENTRIES

\* the condition of the while loop of _set_cached
OverLimits(d) ==
    Len(d) > _CACHE_MAX_ENTRIES \/ _cache_size_bytes(d) > _CACHE_MAX_BYTES

\* the loop deleting the newest key (popitem) instead of the oldest
RECURSIVE EvictLoopNewest(_)
EvictLoopNewest(d) ==
    IF OverLimits(d)
    THEN IF d = <<>> THEN d ELSE EvictLoopNewest(DictDel(d, d[Len(d)].url))
    ELSE d

\* the while loop of _set_cached
RECURSIVE EvictLoop(_)
EvictLoop(d) ==
    IF OverLimits(d)
    THEN IF d = <<>> THEN d ELSE EvictLoop(DictDel(d, Head(d).url))
    ELSE d

\* the dict afterwards
_set_cached(d, url, result, t) == EvictLoop(DictSet(d, url, t, result))

-----------------------------------------------------------------------------
(* SpecCache: a client of the cache *)

\* What a cache call leaves for its caller: op, url and res (the result
\* passed to _set_cached, or the value _get_cached returned), at (the time of
\* the call), age (of the entry _get_cached found, -1 without one), and, when
\* the call before was a _set_cached of the same URL, after (the result it
\* stored) and since (the seconds since it).
Ret(op, url, res, at, age, after, since) ==
    [op |-> op, url |-> url, res |-> res, at |-> at, age |-> age,
     after |-> after, since |-> since]

NoRet == Ret("none", 0, None, 0, -1, None, -1)

\* the parts of the program a specification leaves out
NoTool == call = <<>> /\ last = None
NoUnit ==
    /\ val = <<>>
    /\ nav = <<>>
    /\ rq = <<>>
    /\ render = <<>>
    /\ probe = <<>>
    /\ cond = <<>>
NoBrowser ==
    /\ _semaphore = 0
    /\ _browser_lock = 0
    /\ _playwright = 0
    /\ _browser = 0
    /\ driver = <<>>
    /\ browser = <<>>
    /\ req = <<>>
    /\ ctx = <<>>
    /\ sd = <<>>
    /\ faults = 0

CacheInit ==
    /\ _cache = <<>>
    /\ now = 0
    /\ ret = NoRet
    /\ NoTool
    /\ NoBrowser
    /\ NoUnit

\* The warm-up is in progress: its pages are stored back to back.
Warming == ret.op = "warm" /\ Len(_cache) < Ballast

\* Warm-up: store the next of Ballast distinct small pages.
Warm ==
    /\ ret.op \in {"none", "warm"}
    /\ Len(_cache) < Ballast
    /\ LET u == NUrls + Len(_cache) + 1
       IN  /\ _cache' = _set_cached(_cache, u, SmallResult, now)
           /\ ret' = Ret("warm", u, SmallResult, now, -1, None, -1)
    /\ UNCHANGED <<now, toolVars, browserVars, unitVars>>

SetCached(u, r) ==
    /\ ~Warming
    /\ _cache' = _set_cached(_cache, u, r, now)
    /\ ret' = Ret("set", u, r, now, -1, None, -1)
    /\ UNCHANGED <<now, toolVars, browserVars, unitVars>>

GetCached(u) ==
    /\ ~Warming
    /\ LET g == _get_cached(_cache, u, now)
           follows == ret.op = "set" /\ ret.url = u
       IN  /\ _cache' = g.cache
           /\ ret' = Ret("get", u, g.ret, now,
                         IF DictHas(_cache, u) THEN now - DictGet(_cache, u).ts
                                               ELSE -1,
                         IF follows THEN ret.res ELSE None,
                         IF follows THEN now - ret.at ELSE -1)
    /\ UNCHANGED <<now, toolVars, browserVars, unitVars>>

\* time passes
Tick ==
    /\ ~Warming
    /\ now + TickStep <= MaxTime
    /\ now' = now + TickStep
    /\ UNCHANGED <<_cache, ret, toolVars, browserVars, unitVars>>

CacheNext ==
    \/ Warm
    \/ \E u \in Urls, r \in Results : SetCached(u, r)
    \/ \E u \in Urls : GetCached(u)
    \/ Tick

SpecCache == CacheInit /\ [][CacheNext]_vars

-----------------------------------------------------------------------------
(* SpecTool: server.fetch, called concurrently. A call runs from one await  *)
(* to the next in one step: up to the HEAD request of head_check, from its  *)
(* answer to the await of fetch_page, and from fetch_page's outcome to the  *)
(* return.                                                                  *)

Calls == 1..NCalls

\* what fetch returns: the text built from a result, or an "Error: " string
TextOf(r) == [kind |-> "text", res |-> r]
ErrorOut == [kind |-> "error", res |-> None]
NoOut == [kind |-> "none", res |-> None]

\* The locals of a call: pc, url, pre (how the precheck ended), hit (the
\* lookup returned a result), fetches (calls of fetch_page), at (the time of
\* the lookup, or of the return when there was none), out (the value
\* returned) and follows (the record `last` when the call began with no other
\* call in flight).
IdleCall ==
    [pc |-> "idle", url |-> 0, pre |-> "none", hit |-> FALSE, fetches |-> 0,
     at |-> 0, out |-> NoOut, follows |-> None]

InFlight(c) == call[c].pc \in {"head", "fetching"}

\* the calls, with the frames of those that have returned gone
Frames == [d \in Calls |-> IF call[d].pc = "done" THEN IdleCall ELSE call[d]]

ToolInit ==
    /\ _cache = <<>>
    /\ now = 0
    /\ ret = NoRet
    /\ call = [c \in Calls |-> IdleCall]
    /\ last = None
    /\ NoBrowser
    /\ NoUnit

\* `if cached:` taken as never true
UseCacheNever(cached) == FALSE

\* `if cached:` -- a FetchResult is always true
UseCache(cached) == cached # None

\* a call returns: it ends, and `last` keeps it when it stored a result;
\* the frame of a call that did not follow a completed fetch is gone at once
Return(c, rec, stored) ==
    /\ call' = [Frames EXCEPT ![c] = IF rec.follows # None
                                     THEN [rec EXCEPT !.pc = "done"]
                                     ELSE IdleCall]
    /\ last' = stored

\* fetch(url) is called (in the lowest free slot): head_check validates the
\* URL and sends its HEAD request, or fails at once when the URL is invalid.
CallFetch(c, u, valid) ==
    /\ ~InFlight(c)
    /\ \A d \in 1..(c - 1) : InFlight(d)
    /\ LET alone == \A d \in Calls \ {c} : ~InFlight(d)
           rec == [IdleCall EXCEPT !.url = u,
                                   !.follows = IF alone THEN last ELSE None]
           others == [d \in Calls |-> [Frames[d] EXCEPT !.follows = None]]
       IN  IF valid
           THEN /\ call' = [others EXCEPT ![c] = [rec EXCEPT !.pc = "head"]]
                /\ last' = None
           ELSE /\ call' = [others EXCEPT ![c] =
                               [rec EXCEPT !.pc = "done", !.pre = "invalid",
                                           !.at = now, !.out = ErrorOut]]
                /\ last' = None
    /\ UNCHANGED <<_cache, now, ret, browserVars, unitVars>>

\* head_check ends with an error (content type, or the final URL invalid)
HeadFails(c) ==
    /\ call[c].pc = "head"
    /\ Return(c, [call[c] EXCEPT !.pre = "nonhtml", !.at = now,
                                 !.out = ErrorOut], None)
    /\ UNCHANGED <<_cache, now, ret, browserVars, unitVars>>

\* head_check ends normally: the lookup, then either the return of the text
\* built from the cached result or the call of fetch_page (whose own
\* validate_url may fail).
HeadPasses(c, valid) ==
    /\ call[c].pc = "head"
    /\ LET g == _get_cached(_cache, call[c].url, now)
           rec == [call[c] EXCEPT !.pre = "ok", !.at = now]
       IN  /\ _cache' = g.cache
           /\ IF UseCache(g.ret)
              THEN Return(c, [rec EXCEPT !.hit = TRUE, !.out = TextOf(g.ret)],
                          None)
              ELSE IF valid
                   THEN /\ call' = [Frames EXCEPT ![c] =
                                      [rec EXCEPT !.pc = "fetching",
                                                  !.fetches = @ + 1]]
                        /\ UNCHANGED last
                   ELSE Return(c, [rec EXCEPT !.fetches = @ + 1,
                                              !.out = ErrorOut], None)
    /\ UNCHANGED <<now, ret, browserVars, unitVars>>

\* fetch_page returns r: it is stored, and the text built from it returned
FetchReturns(c, r) ==
    /\ call[c].pc = "fetching"
    /\ _cache' = _set_cached(_cache, call[c].url, r, now)
    /\ Return(c, [call[c] EXCEPT !.out = TextOf(r)],
              [url |-> call[c].url, res |-> r, at |-> now,
               appended |-> ~DictHas(_cache, call[c].url)])
    /\ UNCHANGED <<now, ret, browserVars, unitVars>>

\* fetch_page raises
FetchRaises(c) ==
    /\ call[c].pc = "fetching"
    /\ Return(c, [call[c] EXCEPT !.out = ErrorOut], None)
    /\ UNCHANGED <<_cache, now, ret, browserVars, unitVars>>

\* time passes
ToolTick ==
    /\ now + TickStep <= MaxTime
    /\ now' = now + TickStep
    /\ call' = Frames
    /\ UNCHANGED <<_cache, ret, last, browserVars, unitVars>>

ToolNext ==
    \/ \E c \in Calls, u \in Urls, valid \in BOOLEAN : CallFetch(c, u, valid)
    \/ \E c \in Calls : HeadFails(c)
    \/ \E c \in Calls, valid \in BOOLEAN : HeadPasses(c, valid)
    \/ \E c \in Calls, r \in Pages : FetchReturns(c, r)
    \/ \E c \in Calls : FetchRaises(c)
    \/ ToolTick

SpecTool == ToolInit /\ [][ToolNext]_vars

-----------------------------------------------------------------------------
(* fetch.py. fetch_page and take_screenshot operations run concurrently,    *)
(* each from one await to the next in one step; every awaited call either   *)
(* returns or raises. The two operations take the same steps (validate_url, *)
(* the gate, new_page, a try block, context.close() in finally), so one     *)
(* operation of the model stands for either.                                *)
(* SpecBrowser: one more operation than the gate has permits, no shutdown.  *)
(* SpecSession: NClients operations and the calls of shutdown().            *)

\* one operation more than the gate admits
NOps == SEMAPHORE_PERMITS + 1
Ops == 1..NOps
Clients == 1..NClients

\* The locals of an operation: pc, drv (the driver its launch runs on),
\* handle (the browser get_browser returned), err (where its exception was
\* raised: in validate_url, get_browser, new_page, the try block or
\* context.close()), and the acquisitions and releases of the gate it made.
IdleOp ==
    [pc |-> "idle", drv |-> 0, handle |-> 0, err |-> "none",
     acq |-> 0, rel |-> 0]

\* shutdown(): pc, the calls made, the object of the awaited close() or
\* stop(), the browser stored when the first call was made, and whether
\* the last call raised
IdleShutdown ==
    [pc |-> "idle", calls |-> 0, target |-> 0, found |-> 0, raised |-> FALSE]

BrowserInit ==
    /\ _cache = <<>>
    /\ now = 0
    /\ ret = NoRet
    /\ NoTool
    /\ NoUnit
    /\ _semaphore = SEMAPHORE_PERMITS
    /\ _browser_lock = 0
    /\ _playwright = 0
    /\ _browser = 0
    /\ driver = <<>>
    /\ browser = <<>>
    /\ req = [t \in Ops |-> IdleOp]
    /\ ctx = [t \in Ops |-> "none"]
    /\ sd = IdleShutdown
    /\ faults = 0

\* the browser the operation works on is alive
Alive(t) == req[t].handle # 0 /\ browser[req[t].handle].alive

\* A driver call raises: where the call could have succeeded this uses up
\* one of the failures the model allows.
Raises(possible) ==
    /\ possible => faults < MaxFaults
    /\ faults' = IF possible THEN faults + 1 ELSE faults

\* the gate released only when the block ended without an exception
SlotExitOnSuccess(permits, failed) == IF failed THEN permits ELSE permits + 1

\* `async with _get_semaphore()` is left: the permit goes back, whatever
\* the outcome
SlotExit(permits, failed) == permits + 1

\* the operation ends inside the `async with`: with its result, or with
\* the exception of step e
Leave(t, e) ==
    /\ req' = [req EXCEPT ![t].pc = "done", ![t].err = e,
                          ![t].rel = IF SlotExit(_semaphore, e # "none")
                                        = _semaphore
                                     THEN @ ELSE @ + 1]
    /\ _semaphore' = SlotExit(_semaphore, e # "none")

\* the lock kept by a get_browser that raised
LockExitOnSuccess(holder, failed) == IF failed THEN holder ELSE 0

\* `async with _get_lock()` is left: the lock is free, whatever the outcome
LockExit(holder, failed) == 0

\* `if _browser is None` taken as always true
NeedsLaunchAlways(b) == TRUE

\* `if _browser is None`
NeedsLaunch(b) == b = 0

\* new_page -> get_browser, up to its first await: with the lock held by
\* another operation it waits for the lock; with a browser stored it
\* returns it without awaiting and browser.new_context() is awaited;
\* otherwise async_playwright().start() is awaited with the lock held
GetBrowser(t) ==
    IF _browser_lock # 0
    THEN [pc |-> "lock", handle |-> 0, lock |-> _browser_lock]
    ELSE IF NeedsLaunch(_browser)
         THEN [pc |-> "starting", handle |-> 0, lock |-> t]
         ELSE [pc |-> "newctx", handle |-> _browser, lock |-> 0]

\* the gate is entered and new_page() runs up to its first await
EnterGate(t) ==
    /\ _semaphore' = _semaphore - 1
    /\ _browser_lock' = GetBrowser(t).lock
    /\ req' = [req EXCEPT ![t].pc = GetBrowser(t).pc,
                          ![t].handle = GetBrowser(t).handle,
                          ![t].acq = @ + 1]

\* fetch_page(url) / take_screenshot(url) is called: validate_url, then
\* `async with _get_semaphore()`, which is entered without awaiting when a
\* permit is free and waits otherwise
Begin(t, valid) ==
    /\ req[t].pc = "idle"
    /\ \A u \in 1..(t - 1) : req[u].pc # "idle"
    /\ IF ~valid
       THEN /\ req' = [req EXCEPT ![t].pc = "done",
                                  ![t].err = "validate_url"]
            /\ UNCHANGED <<_semaphore, _browser_lock>>
       ELSE IF _semaphore = 0
            THEN /\ req' = [req EXCEPT ![t].pc = "acquire"]
                 /\ UNCHANGED <<_semaphore, _browser_lock>>
            ELSE EnterGate(t)
    /\ UNCHANGED <<sessionVars, ctx, sd, faults>>
    /\ UNCHANGED <<cacheVars, toolVars, unitVars>>

\* an operation waiting at the gate gets a permit
Acquire(t) ==
    /\ req[t].pc = "acquire"
    /\ _semaphore > 0
    /\ EnterGate(t)
    /\ UNCHANGED <<sessionVars, ctx, sd, faults>>
    /\ UNCHANGED <<cacheVars, toolVars, unitVars>>

\* an operation waiting for _browser_lock gets it
EnterLock(t) ==
    /\ req[t].pc = "lock"
    /\ _browser_lock = 0
    /\ _browser_lock' = GetBrowser(t).lock
    /\ req' = [req EXCEPT ![t].pc = GetBrowser(t).pc,
                          ![t].handle = GetBrowser(t).handle]
    /\ UNCHANGED <<_semaphore, sessionVars, ctx, sd, faults>>
    /\ UNCHANGED <<cacheVars, toolVars, unitVars>>

\* async_playwright().start() returns: _playwright is assigned and the
\* launch awaited; or it raises
StartDriver(t, ok) ==
    /\ req[t].pc = "starting"
    /\ IF ok
       THEN /\ driver' = Append(driver, [alive |-> TRUE, stops |-> 0,
                                         launch |-> "pending"])
            /\ _playwright' = Len(driver) + 1
            /\ req' = [req EXCEPT ![t].pc = "launching",
                                  ![t].drv = Len(driver) + 1]
            /\ UNCHANGED <<_semaphore, _browser_lock, faults>>
       ELSE /\ Raises(TRUE)
            /\ _browser_lock' = LockExit(_browser_lock, TRUE)
            /\ Leave(t, "get_browser")
            /\ UNCHANGED <<_playwright, driver>>
    /\ UNCHANGED <<_browser, browser, ctx, sd>>
    /\ UNCHANGED <<cacheVars, toolVars, unitVars>>

\* chromium.launch() returns: _browser is assigned, the lock released and
\* the browser returned; or it raises (it cannot succeed on a stopped driver)
Launch(t, ok) ==
    /\ req[t].pc = "launching"
    /\ _browser_lock' = LockExit(_browser_lock, ~ok)
    /\ IF ok
       THEN /\ driver[req[t].drv].alive
            /\ driver' = [driver EXCEPT ![req[t].drv].launch = "ok"]
            /\ browser' = Append(browser, [alive |-> TRUE, closes |-> 0,
                                           drv |-> req[t].drv, by |-> t])
            /\ _browser' = Len(browser) + 1
            /\ req' = [req EXCEPT ![t].pc = "newctx",
                                  ![t].handle = Len(browser) + 1]
            /\ UNCHANGED <<_semaphore, faults>>
       ELSE /\ Raises(driver[req[t].drv].alive)
            /\ driver' = [driver EXCEPT ![req[t].drv].launch = "failed"]
            /\ Leave(t, "get_browser")
            /\ UNCHANGED <<_browser, browser>>
    /\ UNCHANGED <<_playwright, ctx, sd>>
    /\ UNCHANGED <<cacheVars, toolVars, unitVars>>

\* new_page: browser.new_context() returns a context, or raises
NewContext(t, ok) ==
    /\ req[t].pc = "newctx"
    /\ IF ok
       THEN /\ Alive(t)
            /\ ctx' = [ctx EXCEPT ![t] = "open"]
            /\ req' = [req EXCEPT ![t].pc = "stealth"]
            /\ UNCHANGED <<_semaphore, faults>>
       ELSE /\ Raises(Alive(t))
            /\ Leave(t, "new_page")
            /\ UNCHANGED ctx
    /\ UNCHANGED <<_browser_lock, sessionVars, sd>>
    /\ UNCHANGED <<cacheVars, toolVars, unitVars>>

\* new_page: a step after the context was created returns or raises; an
\* exception leaves new_page, and the `async with`, with no handler
NewPageStep(t, at, next, ok) ==
    /\ req[t].pc = at
    /\ IF ok
       THEN /\ Alive(t)
            /\ req' = [req EXCEPT ![t].pc = next]
            /\ UNCHANGED <<_semaphore, faults>>
       ELSE /\ Raises(Alive(t))
            /\ Leave(t, "new_page")
    /\ UNCHANGED <<_browser_lock, sessionVars, ctx, sd>>
    /\ UNCHANGED <<cacheVars, toolVars, unitVars>>

\* _stealth.apply_stealth_async(context)
ApplyStealth(t, ok) == NewPageStep(t, "stealth", "newpage", ok)

\* context.new_page()
OpenPage(t, ok) == NewPageStep(t, "newpage", "navigate", ok)

\* a step inside try: it returns, or raises and the finally block is
\* entered
TryStep(t, at, next, ok) ==
    /\ req[t].pc = at
    /\ IF ok
       THEN /\ Alive(t)
            /\ req' = [req EXCEPT ![t].pc = next]
            /\ UNCHANGED faults
       ELSE /\ Raises(Alive(t))
            /\ req' = [req EXCEPT ![t].pc = "closing", ![t].err = "try"]
    /\ UNCHANGED <<_semaphore, _browser_lock, sessionVars, ctx, sd>>
    /\ UNCHANGED <<cacheVars, toolVars, unitVars>>

\* _navigate, then validate_url on the URL the redirects ended at
Navigate(t, ok) == TryStep(t, "navigate", "condition", ok)

\* _dismiss_cookie_banner, the settle wait, _auto_scroll
Condition(t, ok) == TryStep(t, "condition", "capture", ok)

\* page.content() and page.title(), or page.screenshot() and its size check
Capture(t, ok) == TryStep(t, "capture", "closing", ok)

\* finally: page.context.close() returns or raises (the context then stays
\* as it was); the `async with` is left
CloseContext(t, ok) ==
    /\ req[t].pc = "closing"
    /\ IF ok
       THEN /\ ctx' = [ctx EXCEPT ![t] = "closed"]
            /\ Leave(t, req[t].err)
            /\ UNCHANGED faults
       ELSE /\ Raises(TRUE)
            /\ Leave(t, "close")
            /\ UNCHANGED ctx
    /\ UNCHANGED <<_browser_lock, sessionVars, sd>>
    /\ UNCHANGED <<cacheVars, toolVars, unitVars>>

\* shutdown() is called: `if _browser` awaits its close(), else
\* `if _playwright` awaits its stop(), else it returns
ShutdownCall ==
    /\ sd.pc = "idle"
    /\ sd.calls < MaxShutdowns
    /\ sd' = [pc |-> IF _browser # 0 THEN "closing"
                     ELSE IF _playwright # 0 THEN "stopping" ELSE "idle",
              calls |-> sd.calls + 1,
              target |-> IF _browser # 0 THEN _browser ELSE _playwright,
              found |-> IF sd.calls = 0 THEN _browser ELSE sd.found,
              raised |-> FALSE]
    /\ UNCHANGED <<_semaphore, _browser_lock, sessionVars, req, ctx, faults>>
    /\ UNCHANGED <<cacheVars, toolVars, unitVars>>

\* _browser.close() returns: the browser and its contexts are gone,
\* _browser = None, then `if _playwright`; or it raises out of shutdown().
\* close() of a browser that is gone already has nothing to close.
ShutdownClose(ok) ==
    /\ sd.pc = "closing"
    /\ IF ok
       THEN /\ browser' = [browser EXCEPT ![sd.target].alive = FALSE,
                                          ![sd.target].closes = @ + 1]
            /\ ctx' = [t \in Ops |->
                         IF ctx[t] = "open" /\ req[t].handle = sd.target
                         THEN "closed" ELSE ctx[t]]
            /\ _browser' = 0
            /\ sd' = IF _playwright # 0
                     THEN [sd EXCEPT !.pc = "stopping", !.target = _playwright]
                     ELSE [sd EXCEPT !.pc = "idle", !.target = 0]
            /\ UNCHANGED faults
       ELSE /\ Raises(TRUE)
            /\ browser' = [browser EXCEPT ![sd.target].closes = @ + 1]
            /\ sd' = [sd EXCEPT !.pc = "idle", !.target = 0, !.raised = TRUE]
            /\ UNCHANGED <<_browser, ctx>>
    /\ UNCHANGED <<_semaphore, _browser_lock, _playwright, driver, req>>
    /\ UNCHANGED <<cacheVars, toolVars, unitVars>>

\* _playwright.stop() returns: the driver, its browsers and their contexts
\* are gone, _playwright = None; or it raises out of shutdown()
ShutdownStop(ok) ==
    /\ sd.pc = "stopping"
    /\ IF ok
       THEN /\ driver' = [driver EXCEPT ![sd.target].alive = FALSE,
                                        ![sd.target].stops = @ + 1]
            /\ browser' = [b \in 1..Len(browser) |->
                             IF browser[b].drv = sd.target
                             THEN [browser[b] EXCEPT !.alive = FALSE]
                             ELSE browser[b]]
            /\ ctx' = [t \in Ops |->
                         IF ctx[t] = "open"
                         THEN IF browser[req[t].handle].drv = sd.target
                              THEN "closed" ELSE ctx[t]
                         ELSE ctx[t]]
            /\ _playwright' = 0
            /\ sd' = [sd EXCEPT !.pc = "idle", !.target = 0]
            /\ UNCHANGED faults
       ELSE /\ Raises(TRUE)
            /\ driver' = [driver EXCEPT ![sd.target].stops = @ + 1]
            /\ sd' = [sd EXCEPT !.pc = "idle", !.target = 0, !.raised = TRUE]
            /\ UNCHANGED <<_playwright, browser, ctx>>
    /\ UNCHANGED <<_semaphore, _browser_lock, _browser, req>>
    /\ UNCHANGED <<cacheVars, toolVars, unitVars>>

BrowserNext ==
    \/ \E t \in Ops, valid \in BOOLEAN : Begin(t, valid)
    \/ \E t \in Ops : Acquire(t)
    \/ \E t \in Ops : EnterLock(t)
    \/ \E t \in Ops, ok \in BOOLEAN : StartDriver(t, ok)
    \/ \E t \in Ops, ok \in BOOLEAN : Launch(t, ok)
    \/ \E t \in Ops, ok \in BOOLEAN : NewContext(t, ok)
    \/ \E t \in Ops, ok \in BOOLEAN : ApplyStealth(t, ok)
    \/ \E t \in Ops, ok \in BOOLEAN : OpenPage(t, ok)
    \/ \E t \in Ops, ok \in BOOLEAN : Navigate(t, ok)
    \/ \E t \in Ops, ok \in BOOLEAN : Condition(t, ok)
    \/ \E t \in Ops, ok \in BOOLEAN : Capture(t, ok)
    \/ \E t \in Ops, ok \in BOOLEAN : CloseContext(t, ok)

SpecBrowser == BrowserInit /\ [][BrowserNext]_vars

\* a step of operation t after its call: the event loop resumes it at the
\* gate or at the lock, or the driver call it awaits returns or raises
OpStep(t) ==
    \/ Acquire(t)
    \/ EnterLock(t)
    \/ \E ok \in BOOLEAN : StartDriver(t, ok)
    \/ \E ok \in BOOLEAN : Launch(t, ok)
    \/ \E ok \in BOOLEAN : NewContext(t, ok)
    \/ \E ok \in BOOLEAN : ApplyStealth(t, ok)
    \/ \E ok \in BOOLEAN : OpenPage(t, ok)
    \/ \E ok \in BOOLEAN : Navigate(t, ok)
    \/ \E ok \in BOOLEAN : Condition(t, ok)
    \/ \E ok \in BOOLEAN : Capture(t, ok)
    \/ \E ok \in BOOLEAN : CloseContext(t, ok)

\* SpecBrowser where, as long as some operation can take a step, a step is
\* eventually taken: every awaited driver call ends, and the event loop
\* runs the tasks that are ready
SpecBrowserFair ==
    BrowserInit /\ [][BrowserNext]_vars /\ WF_vars(\E t \in Ops : OpStep(t))

SessionNext ==
    \/ \E t \in Clients, valid \in BOOLEAN : Begin(t, valid)
    \/ \E t \in Clients : EnterLock(t)
    \/ \E t \in Clients, ok \in BOOLEAN : StartDriver(t, ok)
    \/ \E t \in Clients, ok \in BOOLEAN : Launch(t, ok)
    \/ \E t \in Clients, ok \in BOOLEAN : NewContext(t, ok)
    \/ \E t \in Clients, ok \in BOOLEAN : ApplyStealth(t, ok)
    \/ \E t \in Clients, ok \in BOOLEAN : OpenPage(t, ok)
    \/ \E t \in Clients, ok \in BOOLEAN : Navigate(t, ok)
    \/ \E t \in Clients, ok \in BOOLEAN : Condition(t, ok)
    \/ \E t \in Clients, ok \in BOOLEAN : Capture(t, ok)
    \/ \E t \in Clients, ok \in BOOLEAN : CloseContext(t, ok)
    \/ ShutdownCall
    \/ \E ok \in BOOLEAN : ShutdownClose(ok)
    \/ \E ok \in BOOLEAN : ShutdownStop(ok)

SpecSession == BrowserInit /\ [][SessionNext]_vars

-----------------------------------------------------------------------------
(* SpecValidate: validate_url and _check_hostname of fetch.py, applied to   *)
(* one URL. A URL is given by what urlparse makes of it; what getaddrinfo   *)
(* answers for its hostname is an input too.                                *)

\* an IPv4 address by its 4 octets, an IPv6 address by its 8 groups of 16 bits
IPv4(a, b, c, d) == [v |-> 4, g |-> <<a, b, c, d>>]
IPv6(a, b, c, d, e, f, h, i) == [v |-> 6, g |-> <<a, b, c, d, e, f, h, i>>]

\* ipaddress.ip_network(...): the network address and the prefix length
Network(addr, len) == [v |-> addr.v, g |-> addr.g, len |-> len]

PRIVATE_NETWORKS ==
    << Network(IPv4(10, 0, 0, 0), 8),
       Network(IPv4(172, 16, 0, 0), 12),
       Network(IPv4(192, 168, 0, 0), 16),
       Network(IPv4(127, 0, 0, 0), 8),
       Network(IPv4(169, 254, 0, 0), 16),
       Network(IPv4(0, 0, 0, 0), 8),
       Network(IPv6(0, 0, 0, 0, 0, 0, 0, 1), 128),
       Network(IPv6(64512, 0, 0, 0, 0, 0, 0, 0), 7),
       Network(IPv6(65152, 0, 0, 0, 0, 0, 0, 0), 10) >>

\* the bits of a group: 8 in an IPv4 address, 16 in an IPv6 address
GroupBits(v) == IF v = 4 THEN 8 ELSE 16

Pow2(n) == IF n = 0 THEN 1 ELSE 2 ^ n

\* the bits of group i that a prefix of len bits covers
Covered(v, len, i) ==
    IF len <= (i - 1) * GroupBits(v) THEN 0
    ELSE IF len >= i * GroupBits(v) THEN GroupBits(v)
    ELSE len - (i - 1) * GroupBits(v)

\* `addr in network`: False for an address of the other version, otherwise
\* the first len bits agree
InNetwork(addr, network) ==
    /\ addr.v = network.v
    /\ \A i \in 1..Len(addr.g) :
          addr.g[i] \div Pow2(GroupBits(addr.v) - Covered(addr.v, network.len, i))
            = network.g[i]
                \div Pow2(GroupBits(addr.v) - Covered(addr.v, network.len, i))

\* IPv6Address.ipv4_mapped: the IPv4 address of ::ffff:a.b.c.d, else None
\* (here the address itself stands for None)
IsMapped(addr) ==
    /\ addr.v = 6
    /\ \A i \in 1..5 : addr.g[i] = 0
    /\ addr.g[6] = 65535

ipv4_mapped(addr) ==
    IPv4(addr.g[7] \div 256, addr.g[7] % 256, addr.g[8] \div 256, addr.g[8] % 256)

\* the address the ranges are tested on
Normalized(addr) == IF IsMapped(addr) THEN ipv4_mapped(addr) ELSE addr

\* the inner loop of _check_hostname for the i-th resolved address
Blocked(infos, i) ==
    \E n \in 1..Len(PRIVATE_NETWORKS) :
        InNetwork(Normalized(infos[i]), PRIVATE_NETWORKS[n])

\* what a call ends with: it returns, or raises an exception of class
\* type; a FetchError has one of the kinds of message below and is about
\* a scheme, a URL, a hostname or an address; lookups counts the calls of
\* getaddrinfo made on the way
Returns == [raises |-> "none", kind |-> "none", about |-> "none", lookups |-> 0]
Raise(type, kind, about) ==
    [raises |-> type, kind |-> kind, about |-> about, lookups |-> 0]

\* the outcome of a block that called getaddrinfo once
Looked(outcome) == [outcome EXCEPT !.lookups = @ + 1]

\* socket.getaddrinfo(hostname, ...): the addresses, or an exception
\* (socket.gaierror, or the UnicodeError of the idna codec for a hostname
\* with an empty or too long label)
Resolved(infos) == [raises |-> "none", infos |-> infos]
ResolveFails(type) == [raises |-> type, infos |-> <<>>]

\* getaddrinfo is called; `except socket.gaierror` turns that exception
\* into a FetchError and lets any other pass; the addresses are tested in
\* order and the first one in a network raises
_check_hostname(hostname, answer) ==
    Looked(
      IF answer.raises = "gaierror"
      THEN Raise("FetchError", "UnresolvableHost", hostname)
      ELSE IF answer.raises # "none"
      THEN Raise(answer.raises, "none", hostname)
      ELSE IF \E i \in 1..Len(answer.infos) : Blocked(answer.infos, i)
      THEN Raise("FetchError", "PrivateAddress",
                 Normalized(answer.infos[
                     CHOOSE i \in 1..Len(answer.infos) :
                         /\ Blocked(answer.infos, i)
                         /\ \A j \in 1..(i - 1) : ~Blocked(answer.infos, j)]))
      ELSE Returns)

\* str.lower() on the schemes of the model
Lower(scheme) ==
    CASE scheme \in {"http", "HTTP", "Http"} -> "http"
      [] scheme \in {"https", "HTTPS", "hTTps"} -> "https"
      [] scheme \in {"ftp", "FTP"} -> "ftp"
      [] scheme \in {"file", "FILE"} -> "file"
      [] OTHER -> scheme

\* urlparse(url): ValueError for a netloc whose brackets are unmatched or
\* hold no IP address; otherwise the scheme in lower case and the
\* hostname, "" standing for None
urlparse(url) ==
    IF url.netloc = "brackets"
    THEN [raises |-> "ValueError", scheme |-> "", hostname |-> ""]
    ELSE [raises |-> "none", scheme |-> Lower(url.scheme),
          hostname |-> url.hostname]

validate_url(url, answer) ==
    IF urlparse(url).raises # "none"
    THEN Raise(urlparse(url).raises, "none", url)
    ELSE IF Lower(urlparse(url).scheme) \notin {"http", "https"}
    THEN Raise("FetchError", "InvalidScheme", urlparse(url).scheme)
    ELSE IF urlparse(url).hostname = ""
    THEN Raise("FetchError", "NoHostname", url)
    ELSE _check_hostname(urlparse(url).hostname, answer)

\* the URLs, schemes as written
Schemes == {"http", "HTTP", "https", "hTTps", "ftp", "FILE", "javascript", ""}
Hostnames == {"", "example.com"}
Url(scheme, netloc, hostname) ==
    [scheme |-> scheme, netloc |-> netloc, hostname |-> hostname]
ValidateUrls ==
    {Url(sc, "plain", h) : sc \in Schemes, h \in Hostnames}
      \cup {Url(sc, "brackets", "") : sc \in {"http", "ftp"}}

\* the addresses a hostname may resolve to: inside and just outside every
\* range, plain and IPv4-mapped
Addresses ==
    { IPv4(93, 184, 216, 34), IPv4(10, 0, 0, 1), IPv4(11, 0, 0, 1),
      IPv4(172, 16, 0, 1), IPv4(172, 31, 255, 255), IPv4(172, 32, 0, 1),
      IPv4(172, 15, 255, 255), IPv4(192, 168, 1, 1), IPv4(192, 169, 1, 1),
      IPv4(127, 0, 0, 1), IPv4(169, 254, 169, 254), IPv4(169, 255, 0, 1),
      IPv4(0, 1, 2, 3), IPv4(1, 0, 0, 0),
      IPv6(0, 0, 0, 0, 0, 0, 0, 1), IPv6(0, 0, 0, 0, 0, 0, 0, 2),
      IPv6(64512, 0, 0, 0, 0, 0, 0, 1), IPv6(65023, 0, 0, 0, 0, 0, 0, 1),
      IPv6(65024, 0, 0, 0, 0, 0, 0, 1), IPv6(64511, 0, 0, 0, 0, 0, 0, 1),
      IPv6(65152, 0, 0, 0, 0, 0, 0, 1), IPv6(65215, 0, 0, 0, 0, 0, 0, 1),
      IPv6(65216, 0, 0, 0, 0, 0, 0, 1),
      IPv6(9734, 10240, 0, 0, 0, 0, 0, 1),
      IPv6(0, 0, 0, 0, 0, 65535, 32512, 1),
      IPv6(0, 0, 0, 0, 0, 65535, 43518, 43518),
      IPv6(0, 0, 0, 0, 0, 65535, 2560, 1),
      IPv6(0, 0, 0, 0, 0, 65535, 23992, 55330),
      IPv6(0, 0, 0, 0, 0, 0, 32512, 1) }

Answers ==
    {ResolveFails("gaierror"), ResolveFails("UnicodeError")}
      \cup {Resolved(<<a>>) : a \in Addresses}
      \cup {Resolved(<<a, b>>) : a, b \in Addresses}

IdleOthers ==
    /\ _cache = <<>>
    /\ now = 0
    /\ ret = NoRet
    /\ NoTool
    /\ NoBrowser

ValidateInit ==
    /\ IdleOthers
    /\ probe = <<>>
    /\ cond = <<>>
    /\ \E u \in ValidateUrls, a \in Answers :
          val = [url |-> u, answer |-> a, called |-> FALSE, out |-> Returns]
    /\ nav = <<>>
    /\ rq = <<>>
    /\ render = <<>>

\* validate_url(url) is called and ends
ValidateUrl ==
    /\ ~val.called
    /\ val' = [val EXCEPT !.called = TRUE,
                          !.out = validate_url(val.url, val.answer)]
    /\ UNCHANGED <<cacheVars, toolVars, browserVars, nav, rq, render,
                 probe, cond>>

ValidateNext == ValidateUrl

SpecValidate == ValidateInit /\ [][ValidateNext]_vars

-----------------------------------------------------------------------------
(* SpecNavigate: _navigate of fetch.py, one call. page.goto returns a       *)
(* response, raises a PlaywrightError, or raises something else; the        *)
(* message of a PlaywrightError is given by the substrings the code looks   *)
(* for that it contains.                                                    *)

FatalMarkers ==
    {"ERR_NAME_NOT_RESOLVED", "ERR_CONNECTION_REFUSED", "ERR_EMPTY_RESPONSE",
     "Download is starting"}
Markers == FatalMarkers \cup {"Timeout"}

\* what page.goto ends with
GotoReturns == [raises |-> "none", msg |-> {}]
GotoRaises(type, msg) == [raises |-> type, msg |-> msg]
GotoOutcomes ==
    {GotoReturns, GotoRaises("OtherError", {})}
      \cup {GotoRaises("PlaywrightError", m) : m \in SUBSET Markers}

\* a download is not taken as fatal
_is_fatal_nav_error_no_download(msg) ==
    \E f \in FatalMarkers \ {"Download is starting"} : f \in msg

\* any(f in msg for f in fatal)
_is_fatal_nav_error(msg) == \E f \in FatalMarkers : f \in msg

\* the timeout is tested before the other substrings
MapNavErrorTimeoutFirst(msg, url) ==
    IF "Timeout" \in msg
    THEN Raise("FetchError", "Timeout", url)
    ELSE IF "ERR_NAME_NOT_RESOLVED" \in msg
    THEN Raise("FetchError", "UnresolvableDomain", url)
    ELSE IF "ERR_CONNECTION_REFUSED" \in msg
    THEN Raise("FetchError", "ConnectionRefused", url)
    ELSE IF "ERR_EMPTY_RESPONSE" \in msg
    THEN Raise("FetchError", "EmptyResponse", url)
    ELSE IF "Download is starting" \in msg
    THEN Raise("FetchError", "Download", url)
    ELSE Raise("FetchError", "LoadFailed", url)

\* the outer `except PlaywrightError`: the FetchError raised for msg
MapNavError(msg, url) ==
    IF "ERR_NAME_NOT_RESOLVED" \in msg
    THEN Raise("FetchError", "UnresolvableDomain", url)
    ELSE IF "ERR_CONNECTION_REFUSED" \in msg
    THEN Raise("FetchError", "ConnectionRefused", url)
    ELSE IF "ERR_EMPTY_RESPONSE" \in msg
    THEN Raise("FetchError", "EmptyResponse", url)
    ELSE IF "Download is starting" \in msg
    THEN Raise("FetchError", "Download", url)
    ELSE IF "Timeout" \in msg
    THEN Raise("FetchError", "Timeout", url)
    ELSE Raise("FetchError", "LoadFailed", url)

\* a load attempt: page.goto(url, wait_until=..., timeout=...)
Attempt(wait_until, timeout) == [wait_until |-> wait_until, timeout |-> timeout]
FirstAttempt == Attempt("networkidle", 15000)
SecondAttempt == Attempt("domcontentloaded", 30000)

\* how _navigate ends when an attempt ended with outcome o: a response is
\* returned, a PlaywrightError is mapped, anything else passes unchanged
NavigateEnds(o, url) ==
    IF o.raises = "none" THEN Returns
    ELSE IF o.raises = "PlaywrightError" THEN MapNavError(o.msg, url)
    ELSE Raise(o.raises, "none", url)

\* the URLs _navigate is called with
NavUrls ==
    {Url("https", "plain", "example.com"), Url("http", "plain", "example.com")}

IdleNav(url) ==
    [pc |-> "idle", url |-> url, attempts |-> <<>>, ends |-> <<>>,
     out |-> Returns]

NavigateInit ==
    /\ IdleOthers
    /\ probe = <<>>
    /\ cond = <<>>
    /\ val = <<>>
    /\ \E u \in NavUrls : nav = IdleNav(u)
    /\ rq = <<>>
    /\ render = <<>>

\* _navigate(page, url) is called: the first page.goto is awaited
NavigateCall ==
    /\ nav.pc = "idle"
    /\ nav' = [nav EXCEPT !.pc = "first", !.attempts = <<FirstAttempt>>]
    /\ UNCHANGED <<cacheVars, toolVars, browserVars, val, rq, render,
                 probe, cond>>

\* the first page.goto ends: a PlaywrightError that is not fatal is
\* followed by the second page.goto, everything else ends _navigate
FirstGotoEnds(o) ==
    /\ nav.pc = "first"
    /\ IF o.raises = "PlaywrightError" /\ ~_is_fatal_nav_error(o.msg)
       THEN nav' = [nav EXCEPT !.pc = "second",
                               !.attempts = Append(@, SecondAttempt),
                               !.ends = Append(@, o)]
       ELSE nav' = [nav EXCEPT !.pc = "done",
                               !.ends = Append(@, o),
                               !.out = NavigateEnds(o, nav.url)]
    /\ UNCHANGED <<cacheVars, toolVars, browserVars, val, rq, render,
                 probe, cond>>

\* the second page.goto ends, and _navigate with it
SecondGotoEnds(o) ==
    /\ nav.pc = "second"
    /\ nav' = [nav EXCEPT !.pc = "done",
                          !.ends = Append(@, o),
                          !.out = NavigateEnds(o, nav.url)]
    /\ UNCHANGED <<cacheVars, toolVars, browserVars, val, rq, render,
                 probe, cond>>

NavigateNext ==
    \/ NavigateCall
    \/ \E o \in GotoOutcomes : FirstGotoEnds(o)
    \/ \E o \in GotoOutcomes : SecondGotoEnds(o)

SpecNavigate == NavigateInit /\ [][NavigateNext]_vars

-----------------------------------------------------------------------------
(* SpecRequest: one request followed through all its steps, from the call   *)
(* of the fetch or screenshot tool of server.py (or of fetch_page or        *)
(* take_screenshot of fetch.py directly) to what the caller receives. Each  *)
(* call of validate_url gets its own answer from getaddrinfo. The cache is  *)
(* as earlier calls left it, and the clock stands still.                    *)

Entries == {"fetch", "screenshot", "fetch_page", "take_screenshot"}
Tools == {"fetch", "screenshot"}

\* the URLs of a request, and the URL a redirect may end at
RequestUrls ==
    { Url("https", "plain", "example.com"), Url("ftp", "plain", "example.com"),
      Url("http", "plain", ""), Url("http", "brackets", "") }
RedirectUrl == Url("http", "plain", "internal.example")

\* resp.url, or page.url: the URL reached, which is the requested one
\* unless the server redirected
FinalUrl(url, redirected) == IF redirected THEN RedirectUrl ELSE url

\* what getaddrinfo may answer during a request
RequestAnswers ==
    { Resolved(<<IPv4(93, 184, 216, 34)>>), Resolved(<<IPv4(169, 254, 169, 254)>>),
      ResolveFails("gaierror"), ResolveFails("UnicodeError") }

\* what an operation captures and a call returns: nothing, the HTML of the
\* page, the text made of it, or PNG bytes, which stand here by their length
Data(kind, len) == [kind |-> kind, len |-> len]
NoData == Data("none", 0)

\* MAX_SCREENSHOT_BYTES = 20 * 1024 * 1024
MAX_SCREENSHOT_BYTES == 20 * 1024 * 1024

\* the PNG bytes page.screenshot may return: below, at and above the limit
Pngs ==
    { Data("png", n) : n \in { 1, MAX_SCREENSHOT_BYTES,
                               MAX_SCREENSHOT_BYTES + 1 } }

\* the URL for which the cache may hold a result when the request is made
\* (stored by an earlier fetch, when the name resolved to a public
\* address), and another URL with an expired result
CachedUrl == Url("https", "plain", "example.com")
OtherUrl == Url("https", "plain", "other.example")

\* the result in the cache, and the one fetch_page returns
CachedResult == FetchResult(SmallHtml, 1, 200, "cached")
PageResult == FetchResult(SmallHtml, 1, 200, "fetched")

\* time.time() during the request
RequestNow == 2 * _CACHE_TTL

\* an entry of the cache stored `age` seconds before the request
Stored(url, age) ==
    [url |-> url, ts |-> RequestNow - age, result |-> CachedResult]

\* the cache when the request is made: empty, or with a result for the
\* other URL and none, a fresh or an expired one for CachedUrl
RequestCaches ==
    { <<>>, <<Stored(OtherUrl, _CACHE_TTL)>> } \cup
    { <<Stored(OtherUrl, _CACHE_TTL), Stored(CachedUrl, age)>> :
         age \in {_CACHE_TTL - 1, _CACHE_TTL} }

\* what the caller of the request receives: how the call ends (returns or
\* raises), the type of the value or exception, the text put in front of
\* the message of the exception exc it is made from, and the data returned
Outcome(how, type, prefix, exc, data) ==
    [how |-> how, type |-> type, prefix |-> prefix, exc |-> exc, data |-> data]
NoOutcome == Outcome("none", "none", "", Returns, NoData)

\* every exception is taken by the `except Exception` clause of fetch
fetch_boundary_generic(e) ==
    Outcome("returns", "str", "Error: unexpected failure fetching {url}: ",
            e, NoData)

\* fetch: `except FetchError as e: return f"Error: {e}"`, and
\* `except Exception as e: return f"Error: unexpected failure fetching
\* {url}: {e}"`
fetch_boundary(e) ==
    IF e.raises = "FetchError"
    THEN Outcome("returns", "str", "Error: ", e, NoData)
    ELSE Outcome("returns", "str", "Error: unexpected failure fetching {url}: ",
                 e, NoData)

\* the `except Exception` clause of screenshot missing
screenshot_boundary_domain_only(e) ==
    IF e.raises = "FetchError"
    THEN Outcome("raises", "ValueError", "", e, NoData)
    ELSE Outcome("raises", e.raises, "", e, NoData)

\* screenshot: `except FetchError as e: raise ValueError(str(e))`, and
\* `except Exception as e: raise ValueError(f"Unexpected failure
\* screenshotting {url}: {e}")`
screenshot_boundary(e) ==
    IF e.raises = "FetchError"
    THEN Outcome("raises", "ValueError", "", e, NoData)
    ELSE Outcome("raises", "ValueError",
                 "Unexpected failure screenshotting {url}: ", e, NoData)

\* an exception leaves head_check, fetch_page or take_screenshot: a tool
\* handles it in its except clauses, a direct caller receives it
Caught(entry, e) ==
    IF entry = "fetch" THEN fetch_boundary(e)
    ELSE IF entry = "screenshot" THEN screenshot_boundary(e)
    ELSE Outcome("raises", e.raises, "", e, NoData)

\* a call of validate_url: on the requested or the final URL, made by
\* head_check or by the operation, before or after the navigation, and how
\* it ended
Check(on, by, navigated, out) ==
    [on |-> on, by |-> by, navigated |-> navigated, out |-> out]

IdleRequest ==
    [pc |-> "idle", entry |-> "none", url |-> Url("", "plain", ""),
     checks |-> <<>>, probes |-> 0, acq |-> 0, rel |-> 0, launches |-> 0,
     contexts |-> 0, closed |-> 0, navigated |-> FALSE,
     final |-> Url("", "plain", ""), captured |-> NoData, stored |-> FALSE,
     hit |-> FALSE, lookups |-> 0, before |-> <<>>, exc |-> Returns,
     out |-> NoOutcome]

RequestInit ==
    /\ _cache \in RequestCaches
    /\ now = RequestNow
    /\ ret = NoRet
    /\ NoTool
    /\ NoBrowser
    /\ probe = <<>>
    /\ cond = <<>>
    /\ val = <<>>
    /\ nav = <<>>
    /\ rq = IdleRequest
    /\ render = <<>>

\* the request ends with outcome o
Ends(r, o) == [r EXCEPT !.pc = "done", !.out = o]

\* fetch with the lookup made first
FirstStepLookup(entry) ==
    IF entry = "fetch" THEN "cache"
    ELSE IF entry \in Tools THEN "head_check" ELSE "operation"

\* the first call in the body of a tool is `await head_check(url)`;
\* fetch_page and take_screenshot begin with validate_url
FirstStep(entry) == IF entry \in Tools THEN "head_check" ELSE "operation"

\* the tool, or the operation, is called
Call(entry, url) ==
    /\ rq.pc = "idle"
    /\ rq' = [rq EXCEPT !.entry = entry, !.url = url, !.before = _cache,
                        !.pc = FirstStep(entry)]
    /\ UNCHANGED <<cacheVars, toolVars, browserVars, val, nav, render,
                 probe, cond>>

\* head_check: validate_url(url), before the HEAD request is made
HeadValidate(answer) ==
    /\ rq.pc = "head_check"
    /\ LET o == validate_url(rq.url, answer)
           r == [rq EXCEPT !.checks = Append(@, Check("requested", "head_check", FALSE, o))]
       IN  rq' = IF o.raises # "none" THEN Ends(r, Caught(rq.entry, o))
                 ELSE [r EXCEPT !.pc = "head"]
    /\ UNCHANGED <<cacheVars, toolVars, browserVars, val, nav, render,
                 probe, cond>>

\* the block after head_check returned: the cache lookup of fetch, the
\* operation of screenshot
AfterHead(entry) == IF entry = "fetch" THEN "cache" ELSE "operation"

\* head_check: the HEAD request is sent. A ClientError or a timeout is
\* passed over; with a response, a final URL other than the requested one
\* is validated, then the content type is tested; any other exception
\* leaves head_check.
HeadProbe(res, redirected, answer, html) ==
    /\ rq.pc = "head"
    /\ LET final == FinalUrl(rq.url, redirected)
           r == [rq EXCEPT !.probes = @ + 1]
           o == validate_url(final, answer)
           c == [r EXCEPT !.checks = Append(@, Check("final", "head_check", FALSE, o))]
       IN  rq' =
             IF res = "ClientError" THEN [r EXCEPT !.pc = AfterHead(rq.entry)]
             ELSE IF res = "OtherError"
             THEN Ends(r, Caught(rq.entry, Raise("OtherError", "none", rq.url)))
             ELSE IF final # rq.url /\ o.raises # "none"
             THEN Ends(c, Caught(rq.entry, o))
             ELSE IF ~html
             THEN Ends(IF final # rq.url THEN c ELSE r,
                       Caught(rq.entry, Raise("FetchError", "ContentType", rq.url)))
             ELSE [(IF final # rq.url THEN c ELSE r)
                      EXCEPT !.pc = AfterHead(rq.entry)]
    /\ UNCHANGED <<cacheVars, toolVars, browserVars, val, nav, render,
                 probe, cond>>

\* fetch: cached = _get_cached(url), which deletes an expired entry;
\* `if cached` goes on to the rendering
CacheLookup ==
    /\ rq.pc = "cache"
    /\ LET g == _get_cached(_cache, rq.url, now)
       IN  /\ _cache' = g.cache
           /\ rq' = [rq EXCEPT !.hit = UseCache(g.ret), !.lookups = @ + 1,
                               !.pc = IF UseCache(g.ret) THEN "render"
                                      ELSE "operation"]
    /\ UNCHANGED <<now, ret, toolVars, browserVars, val, nav, render,
                 probe, cond>>

\* fetch_page / take_screenshot: validate_url(url), then the gate is
\* entered and new_page() awaited
OperationValidate(answer) ==
    /\ rq.pc = "operation"
    /\ LET o == validate_url(rq.url, answer)
           r == [rq EXCEPT !.checks = Append(@, Check("requested", "operation", FALSE, o))]
       IN  rq' = IF o.raises # "none" THEN Ends(r, Caught(rq.entry, o))
                 ELSE [r EXCEPT !.pc = "new_page", !.acq = @ + 1]
    /\ UNCHANGED <<cacheVars, toolVars, browserVars, val, nav, render,
                 probe, cond>>

\* new_page(): the browser is launched if there is none, and a context
\* with its page is created; an exception leaves the gate
NewPage(launch, ok) ==
    /\ rq.pc = "new_page"
    /\ LET r == [rq EXCEPT !.launches = IF launch THEN @ + 1 ELSE @]
       IN  rq' = IF ok
                 THEN [r EXCEPT !.pc = "navigate", !.contexts = @ + 1]
                 ELSE Ends([r EXCEPT !.rel = @ + 1],
                           Caught(rq.entry,
                                  Raise("PlaywrightError", "none", rq.url)))
    /\ UNCHANGED <<cacheVars, toolVars, browserVars, val, nav, render,
                 probe, cond>>

\* the final URL is never validated
NeedsRecheckNever(final_url, url) == FALSE

\* `if final_url != url`
NeedsRecheck(final_url, url) == final_url # url

\* _navigate(page, url), which ends as its last page.goto lets it, then
\* the validation of page.url; an exception enters the finally block
Navigate1(o, redirected, answer) ==
    /\ rq.pc = "navigate"
    /\ LET final == FinalUrl(rq.url, redirected)
           n == NavigateEnds(o, rq.url)
           v == validate_url(final, answer)
           r == [rq EXCEPT !.navigated = TRUE, !.final = final]
           c == [r EXCEPT !.checks = Append(@, Check("final", "operation", TRUE, v))]
       IN  rq' =
             IF n.raises # "none" THEN [rq EXCEPT !.pc = "closing", !.exc = n]
             ELSE IF ~NeedsRecheck(final, rq.url) THEN [r EXCEPT !.pc = "condition"]
             ELSE IF v.raises # "none" THEN [c EXCEPT !.pc = "closing", !.exc = v]
             ELSE [c EXCEPT !.pc = "condition"]
    /\ UNCHANGED <<cacheVars, toolVars, browserVars, val, nav, render,
                 probe, cond>>

\* _dismiss_cookie_banner, the wait, _auto_scroll or the viewport change
Condition1(ok) ==
    /\ rq.pc = "condition"
    /\ rq' = IF ok THEN [rq EXCEPT !.pc = "capture"]
             ELSE [rq EXCEPT !.pc = "closing",
                             !.exc = Raise("PlaywrightError", "none", rq.url)]
    /\ UNCHANGED <<cacheVars, toolVars, browserVars, val, nav, render,
                 probe, cond>>

\* the operation of the request
Operation(entry) ==
    IF entry \in {"fetch", "fetch_page"} THEN "fetch_page" ELSE "take_screenshot"

\* `if len(png) > MAX_SCREENSHOT_BYTES`
TooLarge(png) == png.len > MAX_SCREENSHOT_BYTES

\* page.content() and page.title(), or page.screenshot() and the test of
\* the size of what it returned
Capture1(ok, png) ==
    /\ rq.pc = "capture"
    /\ rq' = IF ~ok
             THEN [rq EXCEPT !.pc = "closing",
                             !.exc = Raise("PlaywrightError", "none", rq.url)]
             ELSE IF Operation(rq.entry) = "fetch_page"
             THEN [rq EXCEPT !.pc = "closing", !.captured = Data("html", 0)]
             ELSE IF TooLarge(png)
             THEN [rq EXCEPT !.pc = "closing", !.captured = png,
                             !.exc = Raise("FetchError", "TooLarge", rq.url)]
             ELSE [rq EXCEPT !.pc = "closing", !.captured = png]
    /\ UNCHANGED <<cacheVars, toolVars, browserVars, val, nav, render,
                 probe, cond>>

\* the result stored whether fetch_page returned or raised
AfterFetchPageAlways(d, url, e, result, t) == _set_cached(d, url, result, t)

\* fetch: `result = await fetch_page(...)`, then `_set_cached(url, result)`,
\* which an exception of fetch_page skips
AfterFetchPage(d, url, e, result, t) ==
    IF e.raises = "none" THEN _set_cached(d, url, result, t) ELSE d

\* finally: page.context.close(), whose exception replaces the one in
\* flight; the gate is left; an exception goes to the caller or the except
\* clauses of the tool; a result is returned by the operation, stored and
\* rendered by fetch, wrapped in an Image by screenshot
Close1(ok) ==
    /\ rq.pc = "closing"
    /\ LET e == IF ok THEN rq.exc ELSE Raise("PlaywrightError", "none", rq.url)
           r == [rq EXCEPT !.rel = @ + 1, !.exc = e,
                           !.closed = IF ok THEN @ + 1 ELSE @]
       IN  /\ rq' =
             IF e.raises # "none" THEN Ends(r, Caught(rq.entry, e))
             ELSE IF rq.entry = "fetch"
             THEN [r EXCEPT !.pc = "render", !.stored = TRUE]
             ELSE IF rq.entry = "screenshot"
             THEN Ends(r, Outcome("returns", "Image", "", Returns, rq.captured))
             ELSE IF rq.entry = "fetch_page"
             THEN Ends(r, Outcome("returns", "FetchResult", "", Returns, rq.captured))
             ELSE Ends(r, Outcome("returns", "bytes", "", Returns, rq.captured))
           /\ _cache' = IF rq.entry = "fetch"
                        THEN AfterFetchPage(_cache, rq.url, e, PageResult, now)
                        ELSE _cache
    /\ UNCHANGED <<now, ret, toolVars, browserVars, val, nav, render,
                 probe, cond>>

\* fetch, after its try block: extract_main_content or html_to_text, the
\* header and the truncation; an exception of the extraction (the
\* ValueError of urljoin on a link of the page, for one) has no handler
Render1(ok) ==
    /\ rq.pc = "render"
    /\ rq' = IF ok
             THEN Ends(rq, Outcome("returns", "str", "", Returns, Data("text", 0)))
             ELSE Ends(rq, Outcome("raises", "ValueError", "",
                                   Raise("ValueError", "none", rq.url), NoData))
    /\ UNCHANGED <<cacheVars, toolVars, browserVars, val, nav, render,
                 probe, cond>>

RequestNext ==
    \/ \E e \in Entries, u \in RequestUrls : Call(e, u)
    \/ \E a \in RequestAnswers : HeadValidate(a)
    \/ \E res \in {"ClientError", "OtherError"} :
          HeadProbe(res, FALSE, Resolved(<<>>), TRUE)
    \/ \E f \in BOOLEAN, a \in RequestAnswers, html \in BOOLEAN :
          HeadProbe("response", f, a, html)
    \/ CacheLookup
    \/ \E a \in RequestAnswers : OperationValidate(a)
    \/ \E launch, ok \in BOOLEAN : NewPage(launch, ok)
    \/ \E o \in {GotoReturns, GotoRaises("PlaywrightError", {"Timeout"}),
                 GotoRaises("OtherError", {})},
          f \in BOOLEAN, a \in RequestAnswers :
          Navigate1(o, f, a)
    \/ \E ok \in BOOLEAN : Condition1(ok)
    \/ \E ok \in BOOLEAN, png \in Pngs : Capture1(ok, png)
    \/ \E ok \in BOOLEAN : Close1(ok)
    \/ \E ok \in BOOLEAN : Render1(ok)

SpecRequest == RequestInit /\ [][RequestNext]_vars

-----------------------------------------------------------------------------
(* SpecRender: what fetch of server.py does with a result after its try     *)
(* block: the header, the cap on the length and the truncation. A text is   *)
(* a sequence of segments, each a part of the text with its length in       *)
(* characters, so that the texts of 500000 characters the cap is about can  *)
(* be told apart by what they hold.                                         *)

MAX_CHARS_LIMIT == 500000

\* a small cap, and a small length of a title or of a URL
SmallCap == 50

\* a segment of a text: `len` characters of the part `part`; the marker
\* also carries the two numbers it prints
Segment(part, len) == [part |-> part, len |-> len, total |-> 0, first |-> 0]

\* a text holds no empty segment
Text(segments) == SelectSeq(segments, LAMBDA g : g.len > 0)

RECURSIVE Length(_)
\* len(text)
Length(text) == IF text = <<>> THEN 0 ELSE Head(text).len + Length(Tail(text))

RECURSIVE Take(_, _)
\* text[:n] for n >= 0
Take(text, n) ==
    IF n <= 0 \/ text = <<>> THEN <<>>
    ELSE IF Head(text).len <= n
    THEN <<Head(text)>> \o Take(Tail(text), n - Head(text).len)
    ELSE <<[Head(text) EXCEPT !.len = n]>>

RECURSIVE Digits(_)
\* the length of a non-negative integer in an f-string
Digits(n) == IF n < 10 THEN 1 ELSE 1 + Digits(n \div 10)

RECURSIVE Join(_)
\* "\n".join(parts)
Join(parts) ==
    IF parts = <<>> THEN <<>>
    ELSE IF Len(parts) = 1 THEN <<Head(parts)>>
    ELSE <<Head(parts), Segment("newline", 1)>> \o Join(Tail(parts))

\* every value of max_chars is kept unless it is zero or negative
EffectiveCapNoUpper(max_chars) ==
    IF max_chars <= 0 THEN MAX_CHARS_LIMIT ELSE max_chars

\* `if max_chars <= 0 or max_chars > MAX_CHARS_LIMIT: max_chars =
\* MAX_CHARS_LIMIT`
EffectiveCap(max_chars) ==
    IF max_chars <= 0 \/ max_chars > MAX_CHARS_LIMIT THEN MAX_CHARS_LIMIT
    ELSE max_chars

\* header_parts: "Title: {title}" if there is a title, "Redirected to:
\* {result.url}" if result.url != url (final = 0 stands for result.url ==
\* url), "HTTP {status}" if status >= 400
HeaderParts(title, final, status) ==
    (IF title > 0 THEN <<Segment("Title: {title}", 7 + title)>> ELSE <<>>)
    \o (IF final > 0 THEN <<Segment("Redirected to: {url}", 15 + final)>> ELSE <<>>)
    \o (IF status # 0 /\ status >= 400
        THEN <<Segment("HTTP {status}", 5 + Digits(status))>> ELSE <<>>)

\* `if header: text = header + "\n\n" + text`
WithHeader(header, body) ==
    IF Length(header) > 0
    THEN Text(header \o <<Segment("blank line", 2)>> \o <<Segment("body", body)>>)
    ELSE Text(<<Segment("body", body)>>)

\* f"\n\n[Truncated — {len(text)} total characters, showing first
\* {max_chars}]"
TruncationMarker(total, first) ==
    [part |-> "marker", len |-> 15 + Digits(total) + 33 + Digits(first) + 1,
     total |-> total, first |-> first]

\* `if len(text) > max_chars`
TooLong(text, max_chars) == Length(text) > max_chars

\* `text = text[:max_chars] + f"..."`, or the text as it is
Truncated(text, max_chars) ==
    IF TooLong(text, max_chars)
    THEN Take(text, max_chars) \o <<TruncationMarker(Length(text), max_chars)>>
    ELSE text

\* the values of max_chars, the lengths of a title or final URL, the
\* statuses, and the lengths of the extracted body
MaxCharsValues == {-1, 0, 1, SmallCap, MAX_CHARS_LIMIT, MAX_CHARS_LIMIT + 1}
ShortLengths == {0, 1, SmallCap}
Statuses == {0, 200, 404}
BodyLengths ==
    {0, 1, SmallCap - 1, SmallCap, SmallCap + 1, MAX_CHARS_LIMIT - 1,
     MAX_CHARS_LIMIT, MAX_CHARS_LIMIT + 1, 2 * MAX_CHARS_LIMIT}

RenderInit ==
    /\ IdleOthers
    /\ probe = <<>>
    /\ cond = <<>>
    /\ val = <<>>
    /\ nav = <<>>
    /\ rq = <<>>
    /\ \E m \in MaxCharsValues, t \in ShortLengths, f \in ShortLengths,
          st \in Statuses, b \in BodyLengths :
          render = [max_chars |-> m, title |-> t, final |-> f, status |-> st,
                    body |-> b, called |-> FALSE, cap |-> 0, text |-> <<>>,
                    out |-> <<>>]

\* fetch, from the extracted text to the text returned
Render ==
    /\ ~render.called
    /\ LET cap == EffectiveCap(render.max_chars)
           text == WithHeader(Join(HeaderParts(render.title, render.final,
                                               render.status)),
                              render.body)
       IN  render' = [render EXCEPT !.called = TRUE, !.cap = cap,
                                    !.text = text,
                                    !.out = Truncated(text, cap)]
    /\ UNCHANGED <<cacheVars, toolVars, browserVars, val, nav, rq,
                 probe, cond>>

RenderNext == Render

SpecRender == RenderInit /\ [][RenderNext]_vars

-----------------------------------------------------------------------------
(* SpecPrecheck: head_check of fetch.py on one URL, with the answer of       *)
(* getaddrinfo for each validation and the outcome of the HEAD request. A   *)
(* header value is the sequence of its characters.                          *)

\* the substrings looked for in the Content-Type
AcceptedTypes ==
    { <<"t", "e", "x", "t", "/", "h", "t", "m", "l">>,
      <<"t", "e", "x", "t", "/", "p", "l", "a", "i", "n">>,
      <<"a", "p", "p", "l", "i", "c", "a", "t", "i", "o", "n", "/", "x", "h", "t", "m", "l">> }

\* `t in ct` for two strings
Contains(t, ct) ==
    \E i \in 0..(Len(ct) - Len(t)) : SubSeq(ct, i + 1, i + Len(t)) = t

\* a Content-Type header of the response: its value, and whether that value
\* names html, plain text or xhtml as the accepted substrings spell them
Header(value, web) == [present |-> TRUE, value |-> value, web |-> web]
NoHeader == [present |-> FALSE, value |-> <<>>, web |-> FALSE]

\* resp.headers.get("Content-Type", "")
HeaderGet(header) == IF header.present THEN header.value ELSE <<>>

ContentTypes ==
    { NoHeader, Header(<<>>, FALSE),
      Header(<<"t", "e", "x", "t", "/", "h", "t", "m", "l">>, TRUE),
      Header(<<"t", "e", "x", "t", "/", "h", "t", "m", "l", ";", " ", "c", "h", "a", "r", "s", "e", "t", "=", "u", "t", "f", "-", "8">>, TRUE),
      Header(<<"t", "e", "x", "t", "/", "p", "l", "a", "i", "n">>, TRUE),
      Header(<<"a", "p", "p", "l", "i", "c", "a", "t", "i", "o", "n", "/", "x", "h", "t", "m", "l", "+", "x", "m", "l">>, TRUE),
      Header(<<"a", "p", "p", "l", "i", "c", "a", "t", "i", "o", "n", "/", "p", "d", "f">>, FALSE),
      Header(<<"i", "m", "a", "g", "e", "/", "p", "n", "g">>, FALSE),
      Header(<<"t", "e", "x", "t", "/", "c", "s", "s">>, FALSE),
      Header(<<"T", "E", "X", "T", "/", "H", "T", "M", "L">>, FALSE) }

\* what `session.head(...)` ends with: a response (after redirects, with
\* its headers), an aiohttp.ClientError or an asyncio.TimeoutError
Response(redirected, header) ==
    [kind |-> "response", redirected |-> redirected, header |-> header]
ProbeFails(type) == [kind |-> type, redirected |-> FALSE, header |-> NoHeader]
ProbeOutcomes ==
    {ProbeFails("ClientError"), ProbeFails("TimeoutError")}
    \cup {Response(r, h) : r \in BOOLEAN, h \in ContentTypes}

\* `except aiohttp.ClientError: pass` alone
SwallowedClientOnly(type) == type = "ClientError"

\* `except (aiohttp.ClientError, asyncio.TimeoutError): pass`
Swallowed(type) == type \in {"ClientError", "TimeoutError"}

\* `if ct and not any(t in ct for t in [...])`
NotWebPage(ct) == ct # <<>> /\ ~\E t \in AcceptedTypes : Contains(t, ct)

\* how head_check ends: the outcome of the validation or test that raised
\* (or Returns), the HEAD requests sent and the validations made
Prechecked(out, sent, validations) ==
    [out |-> out, sent |-> sent, validations |-> validations]

\* head_check(url)
head_check(url, answer, res, final_answer) ==
    LET v == validate_url(url, answer)
        final == FinalUrl(url, res.redirected)
        f == validate_url(final, final_answer)
        ct == HeaderGet(res.header)
    IN  IF v.raises # "none" THEN Prechecked(v, 0, 1)
        ELSE IF res.kind # "response"
        THEN IF Swallowed(res.kind) THEN Prechecked(Returns, 1, 1)
             ELSE Prechecked(Raise(res.kind, "none", url), 1, 1)
        ELSE IF final # url /\ f.raises # "none" THEN Prechecked(f, 1, 2)
        ELSE IF NotWebPage(ct)
        THEN Prechecked(Raise("FetchError", "ContentType", ct), 1,
                        IF final # url THEN 2 ELSE 1)
        ELSE Prechecked(Returns, 1, IF final # url THEN 2 ELSE 1)

\* the answers of getaddrinfo to head_check
PrecheckAnswers ==
    { Resolved(<<IPv4(93, 184, 216, 34)>>), Resolved(<<IPv4(10, 0, 0, 1)>>),
      ResolveFails("gaierror") }

PrecheckInit ==
    /\ _cache = <<>>
    /\ now = 0
    /\ ret = NoRet
    /\ NoTool
    /\ NoBrowser
    /\ val = <<>>
    /\ nav = <<>>
    /\ rq = <<>>
    /\ render = <<>>
    /\ cond = <<>>
    /\ \E u \in {Url("https", "plain", "example.com"), Url("ftp", "plain", "example.com")},
          a \in PrecheckAnswers, res \in ProbeOutcomes, fa \in PrecheckAnswers :
          probe = [url |-> u, answer |-> a, res |-> res, final_answer |-> fa,
                   called |-> FALSE, ends |-> Prechecked(Returns, 0, 0)]

HeadCheck ==
    /\ ~probe.called
    /\ probe' = [probe EXCEPT !.called = TRUE,
                              !.ends = head_check(probe.url, probe.answer,
                                                  probe.res, probe.final_answer)]
    /\ UNCHANGED <<cacheVars, toolVars, browserVars, val, nav, rq, render, cond>>

PrecheckNext == HeadCheck

SpecPrecheck == PrecheckInit /\ [][PrecheckNext]_vars

-----------------------------------------------------------------------------
(* SpecCondition: the conditioning of a page by fetch_page of fetch.py,     *)
(* after the navigation and the validation of the final URL and before the  *)
(* capture: _dismiss_cookie_banner, the wait, _auto_scroll. One step per    *)
(* awaited call of the page, which returns or raises a PlaywrightError.     *)

\* the selectors tried, of the 20 of COOKIE_ACCEPT_SELECTORS
NSelectors == 3

\* _auto_scroll(page, max_scrolls=10)
max_scrolls == 10

\* the values document.body.scrollHeight may have
Heights == {0, 100, 200}

\* the conditioning: the selector tried, the locals clicked and
\* prev_height, the iterations of the scroll loop that are over, the
\* page-downs sent, those sent after a measurement equal to the one before
\* (late), whether such a measurement was made (stable), whether the page
\* was scrolled back to the top, and the exception that left the
\* function `by`
ConditionInit ==
    /\ _cache = <<>>
    /\ now = 0
    /\ ret = NoRet
    /\ NoTool
    /\ NoBrowser
    /\ val = <<>>
    /\ nav = <<>>
    /\ rq = <<>>
    /\ render = <<>>
    /\ probe = <<>>
    /\ \E scroll \in BOOLEAN :
          cond = [pc |-> "is_visible", scroll |-> scroll, selector |-> 1,
                  clicked |-> FALSE, pressed |-> FALSE, iterations |-> 0,
                  prev_height |-> 0, downs |-> 0, late |-> 0,
                  stable |-> FALSE, top |-> FALSE, out |-> Returns,
                  by |-> "none"]

\* an awaited call of the page raises inside the function `by`, outside
\* any try block
Propagates(by) ==
    [cond EXCEPT !.pc = "raised", !.by = by,
                 !.out = Raise("PlaywrightError", "none", by)]

\* the loop over the selectors is left: the banner containers are removed
\* `if clicked`, else _dismiss_cookie_banner returns
AfterSelectors(c) ==
    IF c.clicked THEN [c EXCEPT !.pc = "remove"] ELSE [c EXCEPT !.pc = "wait"]

\* `continue`, also taken by `except PlaywrightError`
NextSelector(c) ==
    IF c.selector < NSelectors
    THEN [c EXCEPT !.pc = "is_visible", !.selector = @ + 1]
    ELSE AfterSelectors(c)

\* `if await btn.is_visible(timeout=200)`
IsVisible(res) ==
    /\ cond.pc = "is_visible"
    /\ cond' = IF res = "visible" THEN [cond EXCEPT !.pc = "click"]
               ELSE NextSelector(cond)
    /\ UNCHANGED <<cacheVars, toolVars, browserVars, val, nav, rq, render, probe>>

\* `await btn.click(timeout=1000)`
Click(ok) ==
    /\ cond.pc = "click"
    /\ cond' = IF ok THEN [cond EXCEPT !.pc = "settle", !.pressed = TRUE]
               ELSE NextSelector(cond)
    /\ UNCHANGED <<cacheVars, toolVars, browserVars, val, nav, rq, render, probe>>

\* `await page.wait_for_timeout(500)`, then `clicked = True; break`
Settle(ok) ==
    /\ cond.pc = "settle"
    /\ cond' = IF ok THEN AfterSelectors([cond EXCEPT !.clicked = TRUE])
               ELSE NextSelector(cond)
    /\ UNCHANGED <<cacheVars, toolVars, browserVars, val, nav, rq, render, probe>>

\* `await page.evaluate(...)`, which removes the banner containers
RemoveBanners(ok) ==
    /\ cond.pc = "remove"
    /\ cond' = IF ok THEN [cond EXCEPT !.pc = "wait"]
               ELSE Propagates("_dismiss_cookie_banner")
    /\ UNCHANGED <<cacheVars, toolVars, browserVars, val, nav, rq, render, probe>>

\* fetch_page: `await page.wait_for_timeout(wait * 1000)`, then
\* `if scroll: await _auto_scroll(page)`
Wait(ok) ==
    /\ cond.pc = "wait"
    /\ cond' = IF ~ok THEN Propagates("fetch_page")
               ELSE IF cond.scroll THEN [cond EXCEPT !.pc = "measure"]
               ELSE [cond EXCEPT !.pc = "capture"]
    /\ UNCHANGED <<cacheVars, toolVars, browserVars, val, nav, rq, render, probe>>

\* the test is never true
SameHeightNever(height, prev_height) == FALSE

\* `if height == prev_height`
SameHeight(height, prev_height) == height = prev_height

\* `height = await page.evaluate("document.body.scrollHeight")`, then
\* `break` or `prev_height = height`
Measure(ok, height) ==
    /\ cond.pc = "measure"
    /\ cond' = IF ~ok THEN Propagates("_auto_scroll")
               ELSE IF SameHeight(height, cond.prev_height)
               THEN [cond EXCEPT !.pc = "to_top",
                                 !.stable = @ \/ height = cond.prev_height]
               ELSE [cond EXCEPT !.pc = "press", !.prev_height = height,
                                 !.stable = @ \/ height = cond.prev_height]
    /\ UNCHANGED <<cacheVars, toolVars, browserVars, val, nav, rq, render, probe>>

\* `await page.keyboard.press("PageDown")`
PageDown(ok) ==
    /\ cond.pc = "press"
    /\ cond' = IF ok
               THEN [cond EXCEPT !.pc = "pause", !.downs = @ + 1,
                                 !.late = IF cond.stable THEN @ + 1 ELSE @]
               ELSE Propagates("_auto_scroll")
    /\ UNCHANGED <<cacheVars, toolVars, browserVars, val, nav, rq, render, probe>>

\* `for _ in range(max_scrolls)`: another iteration after n of them
MoreScrolls(n) == n < max_scrolls

\* `await page.wait_for_timeout(500)`, the end of an iteration
Pause(ok) ==
    /\ cond.pc = "pause"
    /\ cond' = IF ~ok THEN Propagates("_auto_scroll")
               ELSE IF MoreScrolls(cond.iterations + 1)
               THEN [cond EXCEPT !.pc = "measure", !.iterations = @ + 1]
               ELSE [cond EXCEPT !.pc = "to_top", !.iterations = @ + 1]
    /\ UNCHANGED <<cacheVars, toolVars, browserVars, val, nav, rq, render, probe>>

\* `await page.evaluate("window.scrollTo(0, 0)")`, after which fetch_page
\* captures the content
ScrollToTop(ok) ==
    /\ cond.pc = "to_top"
    /\ cond' = IF ok THEN [cond EXCEPT !.pc = "capture", !.top = TRUE]
               ELSE Propagates("_auto_scroll")
    /\ UNCHANGED <<cacheVars, toolVars, browserVars, val, nav, rq, render, probe>>

ConditionNext ==
    \/ \E res \in {"visible", "hidden", "raises"} : IsVisible(res)
    \/ \E ok \in BOOLEAN : Click(ok)
    \/ \E ok \in BOOLEAN : Settle(ok)
    \/ \E ok \in BOOLEAN : RemoveBanners(ok)
    \/ \E ok \in BOOLEAN : Wait(ok)
    \/ \E ok \in BOOLEAN, h \in Heights : Measure(ok, h)
    \/ \E ok \in BOOLEAN : PageDown(ok)
    \/ \E ok \in BOOLEAN : Pause(ok)
    \/ \E ok \in BOOLEAN : ScrollToTop(ok)

SpecCondition == ConditionInit /\ [][ConditionNext]_vars

-----------------------------------------------------------------------------
(* Claims on the cache, under SpecCache *)

\* a step that is a call of _set_cached, resp. _get_cached
IsSetStep == ret'.op \in {"set", "warm"} /\ now' = now
IsGetStep == ret'.op = "get" /\ now' = now

DropHead(d, k) == SubSeq(d, k + 1, Len(d))

\* C1: in every state (each cache call is one scheduler turn, so every state
\* is a point where another task can run) the cache holds at most
\* _CACHE_MAX_ENTRIES entries and the UTF-8 byte lengths of the cached HTML
\* bodies sum to at most _CACHE_MAX_BYTES.
C1_CacheBounds ==
    /\ Len(_cache) <= _CACHE_MAX_ENTRIES
    /\ _cache_size_bytes(_cache) <= _CACHE_MAX_BYTES

\* a _set_cached that had to evict by the entry bound left a full cache
C1_Witness ==
    /\ ret.op = "set"
    /\ Len(_cache) = _CACHE_MAX_ENTRIES
    /\ ~DictHas(_cache, NUrls + 1)

\* C2: every _set_cached leaves the dict it wrote to with some number k of
\* its oldest items (by insertion order) removed and nothing else changed,
\* where k is the least number for which both bounds hold (or all items).
C2_FifoEviction ==
    [][IsSetStep =>
        LET full == DictSet(_cache, ret'.url, ret'.at, ret'.res)
        IN  \E k \in 0..Len(full) :
                /\ _cache' = DropHead(full, k)
                /\ (k < Len(full) => ~OverLimits(_cache'))
                /\ \A j \in 0..(k - 1) : OverLimits(DropHead(full, j))
    ]_vars

\* _CACHE_MAX_ENTRIES + 1 distinct small URLs were stored: the first is
\* absent, the last _CACHE_MAX_ENTRIES are present
C2_Witness ==
    /\ ret.op = "set"
    /\ ~DictHas(_cache, NUrls + 1)
    /\ \A u \in (Urls \cup BallastUrls) \ {NUrls + 1} :
          DictHas(_cache, u) /\ DictGet(_cache, u).result = SmallResult
    /\ Cardinality(Urls \cup BallastUrls) = _CACHE_MAX_ENTRIES + 1

\* C3: _get_cached(url) returns a result only if the entry of url is
\* younger than _CACHE_TTL, and then the stored one; for an entry of age
\* _CACHE_TTL or more it returns None and removes that entry and no other;
\* a lookup of a fresh or missing key leaves the cache unchanged.
C3_Ttl ==
    [][IsGetStep =>
        LET u == ret'.url
            present == DictHas(_cache, u)
            age == now - DictGet(_cache, u).ts
        IN  /\ ret'.res # None =>
                  present /\ age < _CACHE_TTL /\ ret'.res = DictGet(_cache, u).result
            /\ (present /\ age >= _CACHE_TTL) =>
                  /\ ret'.res = None
                  /\ ~DictHas(_cache', u)
                  /\ _cache' = SelectSeq(_cache, LAMBDA e : e.url # u)
            /\ (~present \/ age < _CACHE_TTL) => _cache' = _cache
    ]_vars

\* a lookup found an entry of age exactly _CACHE_TTL, returned None and
\* removed it
C3_Witness ==
    /\ ret.op = "get"
    /\ ret.age = _CACHE_TTL
    /\ ret.res = None
    /\ ~DictHas(_cache, ret.url)
    /\ _cache # <<>>

\* C4: a _get_cached(url) that directly follows _set_cached(url, r), less
\* than _CACHE_TTL later, returns r. Stated for the results whose HTML alone
\* is within _CACHE_MAX_BYTES (a larger one can never be held, by C1).
C4_RoundTrip ==
    (/\ ret.op = "get"
     /\ ret.since >= 0
     /\ ret.since < _CACHE_TTL
     /\ Utf8Len(ret.after.html) <= _CACHE_MAX_BYTES)
        => ret.res = ret.after

-----------------------------------------------------------------------------
(* Claims on the fetch tool, under SpecTool *)

\* call c began right after a fetch of the same URL had completed with a
\* result, no other call running since, and looked the cache up (or
\* returned) less than _CACHE_TTL after that result was stored
FollowsFetch(c) ==
    /\ call[c].pc = "done"
    /\ call[c].follows # None
    /\ call[c].follows.url = call[c].url
    /\ call[c].at - call[c].follows.at < _CACHE_TTL

-----------------------------------------------------------------------------
(* Claims on the gate and the contexts, under SpecBrowser *)

\* the operation holds a permit of the gate
HoldsSlot(t) == req[t].acq = req[t].rel + 1

\* the operation is between entering and leaving `async with`
InGate(t) == req[t].pc \notin {"idle", "acquire", "done"}

OpenContexts == {t \in Ops : ctx[t] = "open"}

\* C6: the number of browsing contexts that are created and not yet closed
\* never exceeds 4, and an operation that has a context open while it runs
\* holds a slot of the gate.
C6_GateBound ==
    /\ Cardinality(OpenContexts) <= SEMAPHORE_PERMITS
    /\ \A t \in Ops : InGate(t) => HoldsSlot(t)

\* C7: an operation that acquired a slot has released exactly one slot
\* when it has ended, with a result or with the exception of any step; an
\* operation holds one slot while it runs; the permits of the gate are 4
\* less the slots held, so that all 4 are available whenever no operation
\* is in flight.
C7_SlotRelease ==
    /\ \A t \in Ops : req[t].pc = "done" =>
           /\ req[t].acq = req[t].rel
           /\ req[t].acq = IF req[t].err = "validate_url" THEN 0 ELSE 1
    /\ \A t \in Ops : InGate(t) => req[t].acq = 1 /\ req[t].rel = 0
    /\ \A t \in Ops : req[t].pc \in {"idle", "acquire"} => req[t].acq = 0
    /\ _semaphore
         = SEMAPHORE_PERMITS - Cardinality({t \in Ops : HoldsSlot(t)})
    /\ (\A t \in Ops : req[t].pc \in {"idle", "done"})
          => _semaphore = SEMAPHORE_PERMITS

\* an operation returned its result, another one failed after it had
\* acquired a slot, none is in flight and the gate has its 4 permits
C7_Witness ==
    /\ \A t \in Ops : req[t].pc \in {"idle", "done"}
    /\ \E t, u \in Ops :
          /\ req[t].pc = "done" /\ req[t].err = "none" /\ req[t].rel = 1
          /\ req[u].pc = "done" /\ req[u].rel = 1
          /\ req[u].err \notin {"none", "validate_url"}
    /\ _semaphore = SEMAPHORE_PERMITS

\* C8: every context created by new_page is closed when the request that
\* created it has ended, whatever the outcome.
C8_NoContextLeak ==
    \A t \in Ops : req[t].pc = "done" => ctx[t] # "open"

-----------------------------------------------------------------------------
(* Claims on the browser session, under SpecSession *)

\* the operations get_browser is launching for
Launching == {t \in Clients : req[t].pc \in {"starting", "launching"}}

\* C9 as stated: the launch is performed exactly once, by the first
\* caller, and every other caller receives the same handle without
\* launching.
C9_SingleLaunch ==
    /\ Len(driver) <= 1
    /\ Len(browser) <= 1
    /\ \A t \in Clients : req[t].handle # 0 => req[t].handle = 1

\* C9, amended: as long as shutdown() has not been called, at most one
\* launch succeeds, launches do not overlap, a launch runs only while no
\* browser is stored, every launch before the successful one has failed,
\* and every caller get_browser returned to holds the one stored handle.
C9_SingleLaunchUntilShutdown ==
    sd.calls = 0 =>
      /\ Len(browser) <= 1
      /\ Cardinality(Launching) <= 1
      /\ \A t \in Launching : _browser = 0 /\ _browser_lock = t
      /\ \A d \in 1..Len(driver) :
            \/ driver[d].launch = "failed"
            \/ d = Len(driver)
      /\ \A t \in Clients :
            req[t].handle # 0 => req[t].handle = _browser /\ _browser = 1

\* a caller launched the browser and another caller, which did not
\* launch, received the same handle; no shutdown yet
C9_Witness ==
    /\ sd.calls = 0
    /\ Len(driver) = 1
    /\ Len(browser) = 1
    /\ \E t, u \in Clients :
          /\ t # u
          /\ browser[1].by = t
          /\ req[t].handle = 1
          /\ req[u].handle = 1

\* C10: a shutdown() called when nothing was started closes and stops
\* nothing and does not raise; when a browser was stored at the first
\* call, that call has closed the browser once and stopped its driver
\* once when it has ended, and no browser is closed and no driver stopped
\* more than once.
C10_ShutdownExact ==
    /\ (sd.calls >= 1 /\ Len(driver) = 0) => ~sd.raised /\ sd.pc = "idle"
    /\ \A b \in 1..Len(browser) : browser[b].closes <= 1
    /\ \A d \in 1..Len(driver) : driver[d].stops <= 1
    /\ (sd.found # 0 /\ (sd.calls > 1 \/ sd.pc = "idle")) =>
          /\ browser[sd.found].closes = 1
          /\ driver[browser[sd.found].drv].stops = 1

-----------------------------------------------------------------------------
(* Claims on URL validation, under SpecValidate *)

\* the URL as the caller wrote it has scheme http or https, in any case
HttpScheme(url) == Lower(url.scheme) \in {"http", "https"}

\* the URL has a hostname that can be parsed out of it
ParsableHostname(url) == url.netloc # "brackets" /\ url.hostname # ""

\* C13: for every URL whose scheme, compared case-insensitively, is not
\* http or https, validate_url fails with the invalid-scheme error and has
\* resolved no name; for an http/https URL with no parsable hostname it
\* fails with the no-hostname error and has resolved no name.
C13_SchemeAndHostname ==
    val.called =>
      /\ ~HttpScheme(val.url) =>
            /\ val.out.raises = "FetchError"
            /\ val.out.kind = "InvalidScheme"
            /\ val.out.lookups = 0
      /\ (HttpScheme(val.url) /\ ~ParsableHostname(val.url)) =>
            /\ val.out.raises = "FetchError"
            /\ val.out.kind = "NoHostname"
            /\ val.out.lookups = 0

\* the ranges of the claim, written out on the octets of an IPv4 address
ListedV4(g) ==
    \/ g[1] = 10
    \/ g[1] = 172 /\ g[2] \in 16..31
    \/ g[1] = 192 /\ g[2] = 168
    \/ g[1] = 127
    \/ g[1] = 169 /\ g[2] = 254
    \/ g[1] = 0

\* ::1/128, fc00::/7 and fe80::/10 on the groups of an IPv6 address
ListedV6(g) ==
    \/ g = <<0, 0, 0, 0, 0, 0, 0, 1>>
    \/ g[1] \in 64512..65023
    \/ g[1] \in 65152..65215

\* the address, with ::ffff:a.b.c.d taken as a.b.c.d, lies in a listed range
Listed(addr) ==
    IF addr.v = 4 THEN ListedV4(addr.g)
    ELSE IF addr.g[1] = 0 /\ addr.g[2] = 0 /\ addr.g[3] = 0 /\ addr.g[4] = 0
            /\ addr.g[5] = 0 /\ addr.g[6] = 65535
    THEN ListedV4(<<addr.g[7] \div 256, addr.g[7] % 256,
                    addr.g[8] \div 256, addr.g[8] % 256>>)
    ELSE ListedV6(addr.g)

SomeListed(infos) == \E i \in 1..Len(infos) : Listed(infos[i])

\* C14: for an http/https URL with a hostname, validate_url succeeds only
\* if the hostname resolves and no resolved address lies in a listed
\* range; if at least one does, whichever its place, it fails with the
\* private-address error; if resolution raises it fails with the
\* unresolvable-host error.
C14_PrivateAddressRejection ==
    (val.called /\ HttpScheme(val.url) /\ ParsableHostname(val.url)) =>
      /\ val.out.raises = "none" =>
            val.answer.raises = "none" /\ ~SomeListed(val.answer.infos)
      /\ (val.answer.raises = "none" /\ SomeListed(val.answer.infos)) =>
            val.out.raises = "FetchError" /\ val.out.kind = "PrivateAddress"
      /\ val.answer.raises # "none" =>
            val.out.raises = "FetchError" /\ val.out.kind = "UnresolvableHost"

-----------------------------------------------------------------------------
(* Claims on navigation, under SpecNavigate *)

\* the message names one of the four fatal conditions
FatalMessage(msg) ==
    \/ "ERR_NAME_NOT_RESOLVED" \in msg
    \/ "ERR_CONNECTION_REFUSED" \in msg
    \/ "ERR_EMPTY_RESPONSE" \in msg
    \/ "Download is starting" \in msg

\* the first attempt has ended with a navigation error of the given kind
FirstFailed(fatal) ==
    /\ Len(nav.ends) >= 1
    /\ nav.ends[1].raises = "PlaywrightError"
    /\ FatalMessage(nav.ends[1].msg) = fatal

\* C15: the first load attempt uses network-idle and 15 s; after a fatal
\* error of it no second attempt is made; after any other navigation
\* error of it exactly one second attempt is made, with
\* DOM-content-loaded and 30 s; a failure of the second attempt ends the
\* navigation; so there are at most two attempts, and one after a
\* successful first.
C15_RetryPolicy ==
    /\ Len(nav.attempts) <= 2
    /\ nav.pc # "idle" =>
          nav.attempts[1] = [wait_until |-> "networkidle", timeout |-> 15000]
    /\ FirstFailed(TRUE) => Len(nav.attempts) = 1 /\ nav.pc = "done"
    /\ FirstFailed(FALSE) =>
          /\ Len(nav.attempts) = 2
          /\ nav.attempts[2]
                = [wait_until |-> "domcontentloaded", timeout |-> 30000]
    /\ (Len(nav.ends) >= 1 /\ nav.ends[1].raises = "none") =>
          Len(nav.attempts) = 1 /\ nav.pc = "done"
    /\ Len(nav.ends) = 2 => nav.pc = "done"

\* a first attempt timed out, the second attempt failed too, and the
\* navigation has ended after two attempts
C15_Witness ==
    /\ nav.pc = "done"
    /\ Len(nav.attempts) = 2
    /\ nav.ends[1] = GotoRaises("PlaywrightError", {"Timeout"})
    /\ nav.ends[2].raises = "PlaywrightError"

\* the kinds of navigation error in their priority order, each with the
\* substring it is recognised by
KindOrder ==
    << <<"ERR_NAME_NOT_RESOLVED", "UnresolvableDomain">>,
       <<"ERR_CONNECTION_REFUSED", "ConnectionRefused">>,
       <<"ERR_EMPTY_RESPONSE", "EmptyResponse">>,
       <<"Download is starting", "Download">>,
       <<"Timeout", "Timeout">> >>

\* the first kind in the order that the message matches, else the
\* generic load failure
KindByPriority(msg) ==
    IF \E i \in 1..Len(KindOrder) : KindOrder[i][1] \in msg
    THEN KindOrder[CHOOSE i \in 1..Len(KindOrder) :
                       /\ KindOrder[i][1] \in msg
                       /\ \A j \in 1..(i - 1) : KindOrder[j][1] \notin msg][2]
    ELSE "LoadFailed"

\* the outcome of the attempt that ended the navigation
LastEnd == nav.ends[Len(nav.ends)]

\* C16: a navigation that ended on a navigation error of the driver (a
\* fatal one of the first attempt, or one of the second attempt) raised a
\* FetchError of the kind the priority order gives for the message of
\* that error, carrying the requested URL; no PlaywrightError leaves
\* _navigate.
C16_ErrorMapping ==
    /\ nav.out.raises # "PlaywrightError"
    /\ (nav.pc = "done" /\ LastEnd.raises = "PlaywrightError") =>
          /\ nav.out.raises = "FetchError"
          /\ nav.out.kind = KindByPriority(LastEnd.msg)
          /\ nav.out.about = nav.url

\* a second attempt failed with a message that names a refused
\* connection and a timeout, and was raised as connection refused
C16_Witness ==
    /\ nav.pc = "done"
    /\ Len(nav.ends) = 2
    /\ LastEnd = GotoRaises("PlaywrightError",
                             {"ERR_CONNECTION_REFUSED", "Timeout"})
    /\ nav.out.kind = "ConnectionRefused"

-----------------------------------------------------------------------------
(* Claims on one request, under SpecRequest *)

\* the calls of validate_url the operation made on the URL `on`
OperationChecks(on) ==
    { i \in DOMAIN rq.checks : rq.checks[i].on = on /\ rq.checks[i].by = "operation" }

\* the validation of the final URL by the operation failed
FinalCheckFailed ==
    \E i \in OperationChecks("final") : rq.checks[i].out.raises # "none"

\* the request is over and the context it created was closed without error
ClosedCleanly == rq.pc = "done" /\ rq.closed = rq.contexts

\* nothing was captured, returned or stored
NothingCaptured ==
    /\ rq.captured = NoData
    /\ ~rq.stored
    /\ rq.pc = "done" => rq.out.exc.raises # "none" /\ rq.out.data = NoData

FailedRequestedChecks ==
    { i \in DOMAIN rq.checks :
        /\ rq.checks[i].on = "requested"
        /\ rq.checks[i].out.raises = "FetchError"
        /\ rq.checks[i].out.kind \in
              {"InvalidScheme", "NoHostname", "UnresolvableHost", "PrivateAddress"} }

\* the caller receives the validation error e with its message unchanged:
\* in a string after "Error: " from fetch, in a ValueError from screenshot,
\* as the FetchError itself from fetch_page and take_screenshot
ReachesCaller(e) ==
    /\ rq.pc = "done"
    /\ rq.out.exc = e
    /\ rq.out.data = NoData
    /\ rq.out.prefix = IF rq.entry = "fetch" THEN "Error: " ELSE ""
    /\ rq.out.how = IF rq.entry = "fetch" THEN "returns" ELSE "raises"
    /\ rq.out.type = IF rq.entry = "fetch" THEN "str"
                     ELSE IF rq.entry = "screenshot" THEN "ValueError"
                     ELSE "FetchError"

\* no slot was acquired, no browser launched, no context created
NoBrowserResource == rq.acq = 0 /\ rq.launches = 0 /\ rq.contexts = 0

\* C12 as stated: when the requested URL fails the validation, the request
\* fails with that error before any slot is acquired, any browser is
\* launched, any context is created or any probe is sent, and the message
\* reaches the caller unchanged.
C12_FailFast ==
    \A i \in FailedRequestedChecks :
        /\ NoBrowserResource
        /\ rq.probes = 0
        /\ ReachesCaller(rq.checks[i].out)

\* C12 amended: when a validation of the requested URL fails, the request
\* fails there with that error, before any slot is acquired, any browser
\* is launched or any context is created, and the message reaches the
\* caller unchanged; no probe has been sent when it is the first
\* validation of the request, while the validation fetch_page and
\* take_screenshot make inside the tools comes after the HEAD probe of
\* head_check.
C12_FailFastPerValidation ==
    \A i \in FailedRequestedChecks :
        /\ i = Len(rq.checks)
        /\ NoBrowserResource
        /\ i = 1 => rq.probes = 0
        /\ rq.checks[i].by = "head_check" => rq.probes = 0
        /\ ReachesCaller(rq.checks[i].out)

\* the fetch tool passed head_check, probe included, and fetch_page then
\* found the requested URL resolving to a private address
C12_Witness ==
    /\ rq.entry = "fetch"
    /\ rq.probes = 1
    /\ Len(rq.checks) = 2
    /\ 2 \in FailedRequestedChecks
    /\ rq.checks[2].by = "operation"
    /\ rq.out.prefix = "Error: "
    /\ rq.out.exc.kind = "PrivateAddress"

\* the ways a string returned by fetch reports a failure
ErrorPrefixes == {"Error: ", "Error: unexpected failure fetching {url}: "}

\* C17: every call of the fetch tool returns a string, whatever step
\* fails; on a failure the string begins with "Error: ", followed by the
\* message of a FetchError, or by an "unexpected failure" message with the
\* URL and the message of any other exception.
C17_FetchNeverRaises ==
    rq.entry = "fetch" /\ rq.pc = "done" =>
        /\ rq.out.how = "returns"
        /\ rq.out.type = "str"
        /\ rq.out.exc.raises # "none" =>
              /\ rq.out.prefix \in ErrorPrefixes
              /\ rq.out.exc.raises = "FetchError" <=> rq.out.prefix = "Error: "

\* C18: every failure of head_check or take_screenshot inside the
\* screenshot tool reaches the caller as a ValueError, with the message of
\* a FetchError unchanged and an "Unexpected failure screenshotting <url>"
\* message for any other exception; nothing else is raised, and the image
\* returned on success holds the PNG bytes that were captured.
C18_ScreenshotBoundary ==
    rq.entry = "screenshot" /\ rq.pc = "done" =>
        /\ rq.out.how = "raises" <=> rq.out.exc.raises # "none"
        /\ rq.out.how = "raises" =>
              /\ rq.out.type = "ValueError"
              /\ rq.out.data = NoData
              /\ rq.out.prefix =
                    IF rq.out.exc.raises = "FetchError" THEN ""
                    ELSE "Unexpected failure screenshotting {url}: "
        /\ rq.out.how = "returns" =>
              /\ rq.out.type = "Image"
              /\ rq.out.data = rq.captured
              /\ rq.out.data \in Pngs

\* the screenshot tool raised a ValueError for an exception that is not a
\* FetchError, raised while the page was captured
C18_Witness ==
    /\ rq.entry = "screenshot"
    /\ rq.pc = "done"
    /\ rq.navigated
    /\ rq.out.type = "ValueError"
    /\ rq.out.exc.raises = "PlaywrightError"
    /\ rq.out.prefix = "Unexpected failure screenshotting {url}: "

-----------------------------------------------------------------------------
(* Claims on the text fetch returns, under SpecRender *)

\* the cap M of the statement
M == IF render.max_chars <= 0 \/ render.max_chars > 500000 THEN 500000
     ELSE render.max_chars

\* the output ends with the marker
HasMarker == render.out # <<>> /\ render.out[Len(render.out)].part = "marker"

Kept == SubSeq(render.out, 1, Len(render.out) - 1)

\* a truncated output is the first M characters of the untruncated text,
\* then the marker with the length N of the untruncated text and M
WellTruncated ==
    /\ Kept = Take(render.text, M)
    /\ Length(Kept) = M
    /\ render.out[Len(render.out)].total = Length(render.text)
    /\ render.out[Len(render.out)].first = M

\* C20 as stated: the output is truncated exactly when the extracted body
\* is longer than M, and a truncated output is the first M characters
\* followed by the marker with the true total N and M.
C20_TruncatedWhenBodyExceeds ==
    render.called =>
        /\ HasMarker <=> render.body > M
        /\ HasMarker => WellTruncated

\* what the code does instead: the output is truncated exactly when the
\* full text, the header and the blank line after it included, is longer
\* than M, and N is the length of that full text
TruncatesFullText ==
    render.called =>
        /\ HasMarker <=> Length(render.text) > M
        /\ HasMarker => WellTruncated
        /\ ~HasMarker => render.out = render.text

-----------------------------------------------------------------------------
(* Claims on the precheck, under SpecPrecheck *)

\* the validation of the requested URL failed
RequestedInvalid == validate_url(probe.url, probe.answer).raises # "none"

\* the probe was answered from a URL other than the requested one, and
\* that URL fails the validation
FinalInvalid ==
    /\ probe.res.kind = "response"
    /\ probe.res.redirected
    /\ validate_url(RedirectUrl, probe.final_answer).raises # "none"

\* the response has a Content-Type that is not empty and names none of the
\* accepted types
WrongType ==
    /\ probe.res.kind = "response"
    /\ probe.res.header.present
    /\ probe.res.header.value # <<>>
    /\ ~probe.res.header.web

\* C21: head_check raises in three cases only: the requested URL fails the
\* validation, the final URL of the probe differs from it and fails the
\* validation, or a Content-Type is present that names none of text/html,
\* text/plain, application/xhtml, the error then naming that type; a
\* missing or empty Content-Type passes, and after a timeout or a
\* connection error of the probe head_check returns normally.
C21_PrecheckOutcomes ==
    probe.called =>
        /\ probe.ends.out.raises # "none" <=>
              RequestedInvalid \/ FinalInvalid \/ WrongType
        /\ (~RequestedInvalid /\ ~FinalInvalid /\ WrongType) =>
              /\ probe.ends.out.raises = "FetchError"
              /\ probe.ends.out.kind = "ContentType"
              /\ probe.ends.out.about = probe.res.header.value
        /\ (~RequestedInvalid /\ probe.res.kind # "response") =>
              probe.ends.out = Returns /\ probe.ends.sent = 1

\* the probe timed out and head_check returned normally
C21_Witness ==
    /\ probe.called
    /\ probe.res.kind = "TimeoutError"
    /\ probe.ends.sent = 1
    /\ probe.ends.out = Returns

-----------------------------------------------------------------------------
(* Claims on the conditioning of the page, under SpecCondition *)

\* C22: no failure of a step of _dismiss_cookie_banner or _auto_scroll
\* leaves the function, so that the conditioning never makes fetch_page or
\* take_screenshot fail.
C22_BestEffort == cond.pc # "raised" /\ cond.out.raises = "none"

\* C26: _auto_scroll sends at most max_scrolls page-downs, none after a
\* measurement equal to the one before it (the first being compared with
\* 0, so that a page of height 0 gets none), and, when no step failed, has
\* scrolled back to the top when the content is captured.
C26_ScrollTerminates ==
    /\ cond.downs <= 10
    /\ cond.iterations <= 10
    /\ cond.late = 0
    /\ cond.stable => cond.pc \in {"to_top", "capture", "raised"}
    /\ (cond.pc = "capture" /\ cond.scroll) => cond.top

\* the page kept growing: ten page-downs were sent, then the page was
\* scrolled back to the top
C26_Witness ==
    /\ cond.pc = "capture"
    /\ cond.downs = 10
    /\ ~cond.stable
    /\ cond.top

-----------------------------------------------------------------------------
(* Claims on racing fetch calls, under SpecTool *)

\* the places of the cache that hold an entry for URL u
EntriesFor(u) == { i \in 1..Len(_cache) : _cache[i].url = u }

\* a fetch call has just stored its result over an entry for the same URL:
\* another call stored that entry after this call had missed the cache
RaceCompleted == last # None /\ ~last.appended /\ last.at = now

\* C23: when two fetch calls for the same uncached URL interleave, miss
\* the cache both and both fetch and store, then after the second store
\* the cache holds exactly one entry for the URL, with the result that was
\* stored last, and the bounds of the cache hold.
C23_LastWriteWins ==
    RaceCompleted =>
        /\ Cardinality(EntriesFor(last.url)) = 1
        /\ \A i \in EntriesFor(last.url) : _cache[i].result = last.res
        /\ Len(_cache) <= _CACHE_MAX_ENTRIES
        /\ _cache_size_bytes(_cache) <= _CACHE_MAX_BYTES

\* the same, for results that fit in the cache on their own: the entry
\* stored last is still the one removed when an entry for another URL was
\* stored between the two stores
LastWriteWinsIfItFits ==
    (RaceCompleted /\ Utf8Len(last.res.html) <= _CACHE_MAX_BYTES) =>
        Cardinality(EntriesFor(last.url)) = 1

-----------------------------------------------------------------------------
(* Claims on the order of the cache, under SpecCache *)

\* C25: in every state the order in which _set_cached would remove the
\* entries, the order of the dict, is an order of non-decreasing stored
\* timestamps, also after a key that was present has been overwritten; so
\* an entry removed by eviction is never newer than one that stays.
C25_OrderMatchesAge ==
    \A i, j \in 1..Len(_cache) : i < j => _cache[i].ts <= _cache[j].ts

-----------------------------------------------------------------------------
(* Claims on progress at the gate, under SpecBrowserFair *)

\* operation t was called and has not ended
Running(t) == req[t].pc \notin {"idle", "done"}

\* C24: with more operations than slots, those that find no free slot wait
\* at the gate, and every waiting operation gets a slot and runs to its
\* end, given that every awaited driver call returns or raises; the gate
\* and the launch lock never leave the operations in a state where some
\* are running and none can take a step.
C24_Progress ==
    /\ <>[](\A t \in Ops : ~Running(t))
    /\ []((\E t \in Ops : Running(t)) => ENABLED (\E t \in Ops : OpStep(t)))
    /\ [](Cardinality({t \in Ops : HoldsSlot(t)}) <= SEMAPHORE_PERMITS)

\* an operation waits at the gate while four hold a slot, one of them
\* launching the browser with the lock held and another waiting for the lock
C24_Witness ==
    /\ \E t \in Ops : req[t].pc = "acquire"
    /\ _semaphore = 0
    /\ Cardinality({t \in Ops : HoldsSlot(t)}) = SEMAPHORE_PERMITS
    /\ \E t \in Ops : req[t].pc = "launching" /\ _browser_lock = t
    /\ \E t \in Ops : req[t].pc = "lock"

-----------------------------------------------------------------------------
(* Claims on the size of a screenshot, under SpecRequest *)

\* take_screenshot captured a PNG above the limit and the request has ended
OversizedCaptured ==
    /\ Operation(rq.entry) = "take_screenshot"
    /\ rq.pc = "done"
    /\ rq.captured.kind = "png"
    /\ rq.captured.len > MAX_SCREENSHOT_BYTES

\* C27: take_screenshot never returns a PNG of more than 20 MB; when the
\* PNG that was captured is larger, the request fails with the
\* resource-limit error, raised after the capture, its context is closed
\* and its slot released.
C27_SizeLimit ==
    /\ (Operation(rq.entry) = "take_screenshot" /\ rq.out.how = "returns")
          => rq.out.data.len <= MAX_SCREENSHOT_BYTES
    /\ OversizedCaptured =>
          /\ rq.out.how = "raises"
          /\ rq.out.exc = Raise("FetchError", "TooLarge", rq.url)
          /\ rq.closed = rq.contexts
          /\ rq.rel = rq.acq

\* the same, where context.close() may raise: the close is awaited and the
\* slot released in every case, no PNG above the limit is returned, and
\* the request fails with the resource-limit error when the close returns
SizeLimitUnlessCloseRaises ==
    /\ (Operation(rq.entry) = "take_screenshot" /\ rq.out.how = "returns")
          => rq.out.data.len <= MAX_SCREENSHOT_BYTES
    /\ OversizedCaptured =>
          /\ rq.out.how = "raises"
          /\ rq.rel = rq.acq
          /\ rq.closed = rq.contexts
                => rq.out.exc = Raise("FetchError", "TooLarge", rq.url)
          /\ rq.closed # rq.contexts
                => rq.out.exc = Raise("PlaywrightError", "none", rq.url)

-----------------------------------------------------------------------------
(* Claims on the fetch tool and the cache, under SpecRequest *)

\* head_check raised: a validation it made failed, or the content type of
\* the response is not one of a web page
PrecheckFailed ==
    \/ \E i \in 1..Len(rq.checks) :
          rq.checks[i].by = "head_check" /\ rq.checks[i].out.raises # "none"
    \/ rq.out.exc = Raise("FetchError", "ContentType", rq.url)

\* head_check validated the requested URL, sent its HEAD request and
\* returned
PrecheckPassed ==
    /\ \E i \in 1..Len(rq.checks) :
          /\ rq.checks[i].by = "head_check"
          /\ rq.checks[i].on = "requested"
          /\ rq.checks[i].out.raises = "none"
    /\ rq.probes = 1
    /\ ~PrecheckFailed

\* the call returned a string that begins with "Error: "
ReturnsError ==
    /\ rq.pc = "done"
    /\ rq.out.how = "returns"
    /\ rq.out.type = "str"
    /\ rq.out.prefix \in {"Error: ", "Error: unexpected failure fetching {url}: "}
    /\ rq.out.data = NoData

\* the cache holds a result for the URL of the request that has not expired
FreshEntry ==
    /\ DictHas(_cache, rq.url)
    /\ now - DictGet(_cache, rq.url).ts < _CACHE_TTL

\* C28: in a call of the fetch tool the cache is looked up only after
\* head_check, with its validation of the URL, has returned; a call whose
\* URL fails the validation or the content-type test of head_check returns
\* an "Error: " string, without a lookup and with the cache as it was,
\* also when the cache holds a fresh result for the URL.
C28_PrecheckBeforeCache ==
    rq.entry = "fetch" =>
        /\ rq.lookups > 0 => PrecheckPassed
        /\ (rq.pc = "done" /\ PrecheckFailed) =>
              /\ ReturnsError
              /\ rq.lookups = 0
              /\ ~rq.hit
              /\ _cache = rq.before

\* a fetch call whose URL failed the validation of head_check returned an
\* "Error: " string while the cache held a fresh result for that URL
C28_Witness ==
    /\ rq.entry = "fetch"
    /\ rq.pc = "done"
    /\ PrecheckFailed
    /\ rq.out.exc.raises = "FetchError"
    /\ rq.out.exc.kind # "ContentType"
    /\ FreshEntry
    /\ ReturnsError

\* the cache held an expired result for the URL of the request when the
\* call was made, and differs from what it was by that entry only
OwnExpiredRemoved ==
    /\ DictHas(rq.before, rq.url)
    /\ now - DictGet(rq.before, rq.url).ts >= _CACHE_TTL
    /\ _cache = DictDel(rq.before, rq.url)

\* C29: a call of the fetch tool that returns an "Error: " string has
\* stored nothing: the cache is as it was when the call was made, or
\* lacks only the expired entry of the call's own URL; a call of the
\* screenshot tool makes no lookup and leaves the cache as it was.
C29_FailuresNotCached ==
    /\ (rq.entry = "fetch" /\ ReturnsError) =>
          /\ ~rq.stored
          /\ _cache = rq.before \/ OwnExpiredRemoved
    /\ rq.entry = "screenshot" =>
          /\ rq.lookups = 0
          /\ ~rq.stored
          /\ _cache = rq.before

\* a fetch call found an expired result for its URL, removed it, failed
\* while the page was loaded and returned an "Error: " string
C29_Witness ==
    /\ rq.entry = "fetch"
    /\ ReturnsError
    /\ rq.lookups = 1
    /\ rq.navigated
    /\ OwnExpiredRemoved
    /\ _cache # rq.before

-----------------------------------------------------------------------------
(* Claims on the live browser and driver, under SpecSession *)

\* the drivers and browsers started and not yet stopped or closed
LiveDrivers == {d \in 1..Len(driver) : driver[d].alive}
LiveBrowsers == {b \in 1..Len(browser) : browser[b].alive}

\* the operations inside get_browser
InGetBrowser ==
    {t \in Clients : req[t].pc \in {"lock", "starting", "launching"}}

\* a call of shutdown() returns in this step, with no get_browser call in
\* progress
ShutdownReturns ==
    /\ sd'.pc = "idle"
    /\ ~sd'.raised
    /\ sd.pc # "idle" \/ sd'.calls = sd.calls + 1
    /\ InGetBrowser = {}

\* when shutdown() returns with no get_browser call in progress, no driver
\* and no browser is alive
NoneLiveAfterShutdown ==
    [][ShutdownReturns =>
          Cardinality(LiveDrivers') = 0 /\ Cardinality(LiveBrowsers') = 0]_vars

\* C30: in every state, whatever the interleaving of get_browser calls,
\* failed launches and shutdown calls, at most one driver and at most one
\* browser started by the module are alive; and when a shutdown returns
\* with no get_browser call in progress, none is alive.
C30_AtMostOneLive ==
    /\ [](Cardinality(LiveDrivers) <= 1 /\ Cardinality(LiveBrowsers) <= 1)
    /\ NoneLiveAfterShutdown

\* at most one browser is alive
AtMostOneLiveBrowser == Cardinality(LiveBrowsers) <= 1

====
